---- MODULE Spec2Model ----
(***************************************************************************)
(* Shadow ledger, order engine, settlement queue, reconciler and pool      *)
(* manager of keythings-dapp-engine.                                       *)
(*                                                                         *)
(* Amounts.  Ledger balances are f64 in the source.  A run is either on    *)
(* whole amounts, where every balance is a whole number of tokens far      *)
(* below 2^53 and f64 arithmetic is integer arithmetic, or on fractions,   *)
(* where every balance is an IEEE binary64 value [neg, man, exp] and the   *)
(* arithmetic rounds to nearest-even as the hardware does.  NaN, the       *)
(* infinities, subnormals and negative amounts are not modelled.           *)
(* Option<String> values are the strings "None" and the carried text.      *)
(***************************************************************************)
EXTENDS Integers, Sequences, FiniteSets, TLC

VARIABLES
    ledger,        \* Ledger { balances, on_chain, withdrawals }
    open_orders,   \* run_engine: DashMap<id, (owner, order, reserved)>
    order_seq,     \* number of order ids minted (Uuid::new_v4)
    queue,         \* SettlementQueue channel: the ops sent and not yet received
    wd_seq,        \* number of withdrawal ids minted (Uuid::new_v4)
    rpc_ok,        \* KeetaClient.rpc_url.starts_with("http")
    reports,       \* Reconciler.reports
    pools,         \* PoolManager.pools
    rec,           \* the pool reconciliation in progress (Reconciler::reconcile_pool)
    pool_reqs,     \* number of pool requests served that changed state
    credits,       \* number of credit requests served
    ticks,         \* number of reconciliations run (account keys and pools)
    whole_amounts, \* whether every amount of the run is a whole number of tokens
    quoted,        \* the answer to the last get_amount_out call made on its own
    rx_cmd,        \* run_engine: the EngineCmd channel, commands sent and not yet received
    cmds,          \* every EngineCmd sent, in send order, with what its resp channel got
    worker,        \* spawn_worker: the SettlementOp being processed, NoOp between ops
    events,        \* the enqueue, start and done of every settlement op, in order
    creating,      \* create_pool calls between contains_key and insert: the pools built
    crediting      \* credit calls between the balances write and the on_chain write

vars == <<ledger, open_orders, order_seq, queue, wd_seq, rpc_ok, reports, pools, rec,
          pool_reqs, credits, ticks, whole_amounts, quoted, rx_cmd, cmds, worker, events,
          creating, crediting>>

-----------------------------------------------------------------------------
(* Bounds of the model *)

MaxCredits == 2
MaxOrders == 2
MaxWithdrawals == 2
MaxPoolReqs == 2
MaxRequests == 4
MaxPoolCalls == 3

Users == {"alice", "bob"}
None == "None"

Min(a, b) == IF a < b THEN a ELSE b
Max(a, b) == IF a > b THEN a ELSE b
Abs(a) == IF a < 0 THEN -a ELSE a

-----------------------------------------------------------------------------
(* f64 arithmetic.  A binary64 value is the record [neg, man, exp] of the   *)
(* number (-1)^neg * man * 2^exp; man is a natural number written as its    *)
(* bits, lowest first, without high zeros, and is odd, or empty for zero.   *)
(* Every operation is the exact result rounded to nearest, ties to even.   *)
(* Exponent range, NaN and the infinities are not modelled.                *)
F64_MANTISSA_DIGITS == 53

\* bit k of a natural given by its bits
Bit(b, k) == IF k <= Len(b) THEN b[k] ELSE 0

\* the bits without high zeros
BitsTrim(b) ==
    IF \A i \in 1..Len(b) : b[i] = 0 THEN <<>>
    ELSE SubSeq(b, 1, CHOOSE i \in 1..Len(b) :
                        b[i] = 1 /\ \A j \in (i + 1)..Len(b) : b[j] = 0)

\* the bits of a natural below 2^31
NatBits(n) == BitsTrim([j \in 1..31 |-> (n \div (2 ^ (j - 1))) % 2])

\* a natural as limbs of 10 bits, lowest first, and back
BitsLimbs(b) ==
    [i \in 1..((Len(b) + 9) \div 10) |->
        LET k == 10 * (i - 1) IN
        Bit(b, k + 1) + 2 * Bit(b, k + 2) + 4 * Bit(b, k + 3) + 8 * Bit(b, k + 4)
        + 16 * Bit(b, k + 5) + 32 * Bit(b, k + 6) + 64 * Bit(b, k + 7)
        + 128 * Bit(b, k + 8) + 256 * Bit(b, k + 9) + 512 * Bit(b, k + 10)]

LimbsBits(l) ==
    BitsTrim([j \in 1..(10 * Len(l)) |->
                (l[(j - 1) \div 10 + 1] \div (2 ^ ((j - 1) % 10))) % 2])

Limb(l, i) == IF i <= Len(l) THEN l[i] ELSE 0

RECURSIVE LimbsAdd(_, _, _, _)
LimbsAdd(a, b, i, carry) ==
    IF i > Len(a) /\ i > Len(b) THEN (IF carry = 0 THEN <<>> ELSE <<carry>>)
    ELSE LET s == Limb(a, i) + Limb(b, i) + carry
         IN <<s % 1024>> \o LimbsAdd(a, b, i + 1, s \div 1024)

\* a - b for a >= b
RECURSIVE LimbsSub(_, _, _, _)
LimbsSub(a, b, i, borrow) ==
    IF i > Len(a) THEN <<>>
    ELSE LET d == Limb(a, i) - Limb(b, i) - borrow
         IN <<d % 1024>> \o LimbsSub(a, b, i + 1, IF d < 0 THEN 1 ELSE 0)

\* the sum of a[i] * b[k + 1 - i] over i from 1 to k
RECURSIVE LimbsDot(_, _, _, _)
LimbsDot(a, b, k, i) ==
    IF i > k THEN 0
    ELSE Limb(a, i) * Limb(b, k + 1 - i) + LimbsDot(a, b, k, i + 1)

RECURSIVE LimbsMul(_, _, _, _)
LimbsMul(a, b, k, carry) ==
    IF k > Len(a) + Len(b) THEN <<>>
    ELSE LET s == LimbsDot(a, b, k, 1) + carry
         IN <<s % 1024>> \o LimbsMul(a, b, k + 1, s \div 1024)

BitsAdd(a, b) == LimbsBits(LimbsAdd(BitsLimbs(a), BitsLimbs(b), 1, 0))
BitsSub(a, b) == LimbsBits(LimbsSub(BitsLimbs(a), BitsLimbs(b), 1, 0))
BitsMul(a, b) == LimbsBits(LimbsMul(BitsLimbs(a), BitsLimbs(b), 1, 0))

\* a < b, for naturals without high zeros
BitsLt(a, b) ==
    IF Len(a) # Len(b) THEN Len(a) < Len(b)
    ELSE \E i \in 1..Len(a) :
            a[i] < b[i] /\ \A j \in (i + 1)..Len(a) : a[j] = b[j]

BitsShl(a, k) == IF a = <<>> THEN a ELSE [i \in 1..k |-> 0] \o a

\* the number of low zero bits of a nonzero natural
LowZeros(b) == (CHOOSE i \in 1..Len(b) : b[i] = 1 /\ \A j \in 1..(i - 1) : b[j] = 0) - 1

F64Zero == [neg |-> FALSE, man |-> <<>>, exp |-> 0]

\* the value with its significand made odd
F64Normal(neg, man, exp) ==
    IF man = <<>> THEN F64Zero
    ELSE [neg |-> neg, man |-> SubSeq(man, LowZeros(man) + 1, Len(man)),
          exp |-> exp + LowZeros(man)]

\* round to nearest, ties to even, to F64_MANTISSA_DIGITS significant bits
F64Round(neg, man, exp) ==
    IF Len(man) <= F64_MANTISSA_DIGITS THEN F64Normal(neg, man, exp)
    ELSE LET drop == Len(man) - F64_MANTISSA_DIGITS
             kept == SubSeq(man, drop + 1, Len(man))
             half == man[drop] = 1
             sticky == \E i \in 1..(drop - 1) : man[i] = 1
             up == half /\ (sticky \/ kept[1] = 1)
         IN F64Normal(neg, IF up THEN BitsAdd(kept, <<1>>) ELSE kept, exp + drop)

F64FromInt(n) == F64Normal(n < 0, NatBits(IF n < 0 THEN -n ELSE n), 0)

F64Neg(x) == IF x.man = <<>> THEN x ELSE [x EXCEPT !.neg = ~x.neg]
F64Abs(x) == [x EXCEPT !.neg = FALSE]

F64Add(x, y) ==
    LET e == Min(x.exp, y.exp)
        mx == BitsShl(x.man, x.exp - e)
        my == BitsShl(y.man, y.exp - e)
    IN IF x.man = <<>> THEN y
       ELSE IF y.man = <<>> THEN x
       ELSE IF x.neg = y.neg THEN F64Round(x.neg, BitsAdd(mx, my), e)
       ELSE IF BitsLt(mx, my) THEN F64Round(y.neg, BitsSub(my, mx), e)
       ELSE F64Round(x.neg, BitsSub(mx, my), e)

F64Sub(x, y) == F64Add(x, F64Neg(y))

F64Mul(x, y) == F64Round(x.neg # y.neg, BitsMul(x.man, y.man), x.exp + y.exp)

F64Lt(x, y) ==
    LET e == Min(x.exp, y.exp)
        mx == BitsShl(x.man, x.exp - e)
        my == BitsShl(y.man, y.exp - e)
    IN IF x.neg # y.neg THEN x.neg
       ELSE IF x.neg THEN BitsLt(my, mx) ELSE BitsLt(mx, my)

F64Le(x, y) == ~F64Lt(y, x)

\* a natural below 2^31 in base 1024, high digit first
RECURSIVE DigitsOf(_)
DigitsOf(n) == IF n < 1024 THEN <<n>> ELSE Append(DigitsOf(n \div 1024), n % 1024)

\* long division of a base-1024 number by a divisor below 2^21: the quotient's
\* digits, high first, and the remainder
RECURSIVE LongDiv(_, _, _, _)
LongDiv(digits, i, d, r) ==
    IF i > Len(digits) THEN [quot |-> <<>>, rem |-> r]
    ELSE LET cur == r * 1024 + digits[i]
             rest == LongDiv(digits, i + 1, d, cur % d)
         IN [quot |-> <<cur \div d>> \o rest.quot, rem |-> rest.rem]

\* str::parse::<f64> of the decimal num/den: the binary64 nearest to it.  The
\* quotient num * 2^120 / den carries more than 55 bits; a remainder makes it
\* odd, so that rounding sees the digits cut off.
F64Dec(num, den) ==
    LET n == IF num < 0 THEN -num ELSE num
        dv == LongDiv(DigitsOf(n) \o [i \in 1..12 |-> 0], 1, den, 0)
        q == LimbsBits([i \in 1..Len(dv.quot) |-> dv.quot[Len(dv.quot) + 1 - i]])
        qs == IF dv.rem # 0 /\ q # <<>> THEN <<1>> \o Tail(q) ELSE q
    IN F64Round(num < 0, qs, -120)

\* f64::EPSILON = 2^-52
F64_EPSILON == [neg |-> FALSE, man |-> <<1>>, exp |-> -52]

F64Max(x, y) == IF F64Lt(x, y) THEN y ELSE x
F64Min(x, y) == IF F64Lt(y, x) THEN y ELSE x

\* The arithmetic of the ledger's f64 amounts, on the amounts of the run:
\* whole numbers below 2^53, on which f64 arithmetic is integer arithmetic, or
\* binary64 values.
Zero == IF whole_amounts THEN 0 ELSE F64Zero
AsF64(n) == IF whole_amounts THEN n ELSE F64FromInt(n)
Plus(x, y) == IF whole_amounts THEN x + y ELSE F64Add(x, y)
Minus(x, y) == IF whole_amounts THEN x - y ELSE F64Sub(x, y)
Times(x, y) == IF whole_amounts THEN x * y ELSE F64Mul(x, y)
Less(x, y) == IF whole_amounts THEN x < y ELSE F64Lt(x, y)
AtMost(x, y) == IF whole_amounts THEN x <= y ELSE F64Le(x, y)
Larger(x, y) == IF whole_amounts THEN Max(x, y) ELSE F64Max(x, y)
Smaller(x, y) == IF whole_amounts THEN Min(x, y) ELSE F64Min(x, y)
Magnitude(x) == IF whole_amounts THEN Abs(x) ELSE F64Abs(x)

-----------------------------------------------------------------------------
\* A decimal string as the parsers see it: whether it parses, and to what.
DecStr(v) == [ok |-> TRUE, val |-> v]
BadStr == [ok |-> FALSE, val |-> Zero]

\* format!("{}-{}", token_a, token_b)
PoolIdOf(token_a, token_b) == token_a \o "-" \o token_b
\* format!("LP-{}-{}", token_a, token_b)
LpTokenOf(token_a, token_b) == "LP-" \o token_a \o "-" \o token_b

-----------------------------------------------------------------------------
(* Ledger (ledger.rs) *)

\* DashMap entry(key).or_insert((0.0, 0.0)): the value at key, 0/0 when absent
Entry(balances, key) ==
    IF key \in DOMAIN balances THEN balances[key] ELSE <<Zero, Zero>>

\* the map with key bound to v (inserted when absent)
Put(m, key, v) == [x \in (DOMAIN m) \cup {key} |-> IF x = key THEN v ELSE m[x]]

NewLedger == [balances |-> <<>>, on_chain |-> <<>>, withdrawals |-> <<>>]

internal_balance(L, user, token) == Entry(L.balances, <<user, token>>)

on_chain_balance(L, user, token) ==
    IF <<user, token>> \in DOMAIN L.on_chain THEN L.on_chain[<<user, token>>] ELSE Zero

credit(L, user, token, amt) ==
    LET key == <<user, token>>
        e == Entry(L.balances, key)
    IN [L EXCEPT !.balances = Put(L.balances, key, <<Plus(e[1], amt), Plus(e[2], amt)>>),
                 !.on_chain = Put(L.on_chain, key,
                                  Plus(on_chain_balance(L, user, token), amt))]

\* reserve returns whether it reserved; the entry exists afterwards in both cases
reserve_ok(L, user, token, amt) == ~Less(Entry(L.balances, <<user, token>>)[1], amt)

reserve(L, user, token, amt) ==
    LET key == <<user, token>>
        e == Entry(L.balances, key)
    IN IF Less(e[1], amt)
       THEN [L EXCEPT !.balances = Put(L.balances, key, e)]
       ELSE [L EXCEPT !.balances = Put(L.balances, key, <<Minus(e[1], amt), e[2]>>)]

release(L, user, token, amt) ==
    LET key == <<user, token>>
        e == Entry(L.balances, key)
    IN [L EXCEPT !.balances = Put(L.balances, key, <<Plus(e[1], amt), e[2]>>)]

debit_total(L, user, token, amt) ==
    LET key == <<user, token>>
        e == Entry(L.balances, key)
    IN [L EXCEPT !.balances = Put(L.balances, key, <<e[1], Minus(e[2], amt)>>)]

account_keys(L) == DOMAIN L.balances

\* a faulty adjust_internal_balances: the correction reaches available only
adjust_internal_balances_KeepsTotal(L, user, token, diff) ==
    LET key == <<user, token>>
        e == Entry(L.balances, key)
    IN [L EXCEPT !.balances = Put(L.balances, key, <<Plus(e[1], diff), e[2]>>)]

adjust_internal_balances(L, user, token, diff) ==
    LET key == <<user, token>>
        e == Entry(L.balances, key)
        reserved == Larger(Minus(e[2], e[1]), Zero)
        total == Larger(Plus(e[2], diff), Zero)
        avail == Larger(Minus(total, reserved), Zero)
    IN [L EXCEPT !.balances =
            Put(L.balances, key, <<IF Less(total, avail) THEN total ELSE avail, total>>)]

record_withdrawal(L, id, request) ==
    [L EXCEPT !.withdrawals = Put(L.withdrawals, id,
        [user_id |-> request.user_id, token |-> request.token,
         amount |-> request.amount, status |-> "Pending",
         tx_id |-> None, last_error |-> None])]

apply_on_chain_withdrawal(L, user, token, amount) ==
    [L EXCEPT !.on_chain =
        Put(L.on_chain, <<user, token>>,
            Larger(Minus(on_chain_balance(L, user, token), amount), Zero))]

complete_withdrawal(L, id, user, token, amount, tx_id) ==
    LET L1 == IF id \in DOMAIN L.withdrawals
              THEN [L EXCEPT !.withdrawals[id].status = "Completed",
                             !.withdrawals[id].tx_id = tx_id,
                             !.withdrawals[id].last_error = None]
              ELSE L
    IN apply_on_chain_withdrawal(L1, user, token, amount)

\* a faulty revert_withdrawal: the amount returns to available but not to total
revert_withdrawal_AvailableOnly(L, user, token, amount) ==
    LET key == <<user, token>>
        e == Entry(L.balances, key)
    IN [L EXCEPT !.balances = Put(L.balances, key, <<Plus(e[1], amount), e[2]>>)]

revert_withdrawal(L, user, token, amount) ==
    LET key == <<user, token>>
        e == Entry(L.balances, key)
    IN [L EXCEPT !.balances =
            Put(L.balances, key, <<Plus(e[1], amount), Plus(e[2], amount)>>)]

fail_withdrawal(L, id, user, token, amount, error) ==
    LET L1 == IF id \in DOMAIN L.withdrawals
              THEN [L EXCEPT !.withdrawals[id].status = "Failed",
                             !.withdrawals[id].last_error = error,
                             !.withdrawals[id].tx_id = None]
              ELSE L
    IN revert_withdrawal(L1, user, token, amount)

-----------------------------------------------------------------------------
(* Order engine (engine.rs) *)

\* A market symbol is the sequence of trimmed pieces market.split('/') yields.
parse_market(market) ==
    IF Len(market) = 2 /\ market[1] # "" /\ market[2] # ""
    THEN [ok |-> TRUE, base |-> market[1], quote |-> market[2]]
    ELSE [ok |-> FALSE, base |-> "", quote |-> ""]

\* (reserve_token, reserve_amount) of a parsed order
reserve_token(order) ==
    IF order.side = "Buy" THEN parse_market(order.market).quote
    ELSE parse_market(order.market).base

reserve_amount(order) ==
    IF order.side = "Buy" THEN Times(order.price.val, order.quantity.val)
    ELSE order.quantity.val

\* a faulty handle_place: the order opens whether or not the reserve succeeded
handle_place_Unchecked(L, oo, seq, user_id, order) ==
    IF ~parse_market(order.market).ok \/ ~order.price.ok \/ ~order.quantity.ok
    THEN [res |-> "InvalidMarket", ledger |-> L, open_orders |-> oo, order_seq |-> seq]
    ELSE [res |-> "Ok",
          ledger |-> reserve(L, user_id, reserve_token(order), reserve_amount(order)),
          open_orders |-> Put(oo, seq + 1,
              [owner |-> user_id, order |-> order, reserved |-> reserve_amount(order)]),
          order_seq |-> seq + 1]

\* handle_place: [res, ledger, open_orders, order_seq]
handle_place(L, oo, seq, user_id, order) ==
    IF ~parse_market(order.market).ok \/ ~order.price.ok \/ ~order.quantity.ok
    THEN [res |-> "InvalidMarket", ledger |-> L, open_orders |-> oo, order_seq |-> seq]
    ELSE IF ~reserve_ok(L, user_id, reserve_token(order), reserve_amount(order))
    THEN [res |-> "InsufficientBalance",
          ledger |-> reserve(L, user_id, reserve_token(order), reserve_amount(order)),
          open_orders |-> oo, order_seq |-> seq]
    ELSE [res |-> "Ok",
          ledger |-> reserve(L, user_id, reserve_token(order), reserve_amount(order)),
          open_orders |-> Put(oo, seq + 1,
              [owner |-> user_id, order |-> order, reserved |-> reserve_amount(order)]),
          order_seq |-> seq + 1]

Remove(m, key) == [x \in (DOMAIN m) \ {key} |-> m[x]]

\* a faulty handle_cancel: a denied cancellation does not put the order back
handle_cancel_DropsOrder(L, oo, user_id, id) ==
    IF id \notin DOMAIN oo
    THEN [res |-> "OrderNotFound", ledger |-> L, open_orders |-> oo]
    ELSE LET o == oo[id] IN
         IF o.owner # user_id
         THEN [res |-> "Internal", ledger |-> L, open_orders |-> Remove(oo, id)]
         ELSE IF ~parse_market(o.order.market).ok \/ ~o.order.price.ok
                 \/ ~o.order.quantity.ok
         THEN [res |-> "InvalidMarket", ledger |-> L, open_orders |-> Remove(oo, id)]
         ELSE [res |-> "Ok",
               ledger |-> release(L, user_id, reserve_token(o.order),
                                  Smaller(reserve_amount(o.order), o.reserved)),
               open_orders |-> Remove(oo, id)]

\* handle_cancel: [res, ledger, open_orders]
handle_cancel(L, oo, user_id, id) ==
    IF id \notin DOMAIN oo
    THEN [res |-> "OrderNotFound", ledger |-> L, open_orders |-> oo]
    ELSE LET o == oo[id] IN
         IF o.owner # user_id
         THEN [res |-> "Internal", ledger |-> L, open_orders |-> Put(Remove(oo, id), id, o)]
         ELSE IF ~parse_market(o.order.market).ok \/ ~o.order.price.ok
                 \/ ~o.order.quantity.ok
         THEN [res |-> "InvalidMarket", ledger |-> L, open_orders |-> Remove(oo, id)]
         ELSE [res |-> "Ok",
               ledger |-> release(L, user_id, reserve_token(o.order),
                                  Smaller(reserve_amount(o.order), o.reserved)),
               open_orders |-> Remove(oo, id)]

-----------------------------------------------------------------------------
(* Settlement queue (settlement.rs) and chain client (keeta.rs) *)

WithdrawOp(id, request, amount) ==
    [kind |-> "Withdraw", id |-> id, user_id |-> request.user_id,
     token |-> request.token, amount |-> amount, pool_storage_account |-> ""]

PoolDepositOp(user_id, pool_storage_account, token, amount) ==
    [kind |-> "PoolDeposit", id |-> 0, user_id |-> user_id,
     token |-> token, amount |-> amount, pool_storage_account |-> pool_storage_account]

PoolWithdrawOp(pool_storage_account, user_id, token, amount) ==
    [kind |-> "PoolWithdraw", id |-> 0, user_id |-> user_id,
     token |-> token, amount |-> amount, pool_storage_account |-> pool_storage_account]

\* the worker holds no op: it waits in rx.recv()
NoOp ==
    [kind |-> "None", id |-> 0, user_id |-> "", token |-> "", amount |-> 0,
     pool_storage_account |-> ""]

\* a faulty enqueue: the op is sent to the worker twice
enqueue_Twice(L, q, id, request, amount, send_ok) ==
    LET L1 == record_withdrawal(L, id, request) IN
    [status |-> "pending", request_id |-> id, ledger |-> L1,
     queue |-> Append(Append(q, WithdrawOp(id, request, amount)),
                      WithdrawOp(id, request, amount))]

\* a faulty enqueue: a failed send is reported, but the balance is not given back
enqueue_NoRevert(L, q, id, request, amount, send_ok) ==
    LET L1 == record_withdrawal(L, id, request) IN
    IF send_ok
    THEN [status |-> "pending", request_id |-> id, ledger |-> L1,
          queue |-> Append(q, WithdrawOp(id, request, amount))]
    ELSE [status |-> "failed", request_id |-> id,
          ledger |-> [L1 EXCEPT !.withdrawals[id].status = "Failed"],
          queue |-> q]

\* SettlementQueue::enqueue: [status, request_id, ledger, queue].  send_ok is the
\* outcome of tx.send(op): it fails only when the receiver is gone.
enqueue(L, q, id, request, amount, send_ok) ==
    LET L1 == record_withdrawal(L, id, request) IN
    IF send_ok
    THEN [status |-> "pending", request_id |-> id, ledger |-> L1,
          queue |-> Append(q, WithdrawOp(id, request, amount))]
    ELSE [status |-> "failed", request_id |-> id,
          ledger |-> fail_withdrawal(L1, id, request.user_id, request.token, amount,
                                     "failed to enqueue withdrawal"),
          queue |-> q]

enqueue_pool_deposit(q, user_id, pool_storage_account, token, amount) ==
    Append(q, PoolDepositOp(user_id, pool_storage_account, token, amount))

enqueue_pool_withdraw(q, pool_storage_account, user_id, token, amount) ==
    Append(q, PoolWithdrawOp(pool_storage_account, user_id, token, amount))

\* KeetaClient::send_on_behalf: Ok(uuid) when the rpc url starts with "http"
send_on_behalf(url_ok) ==
    IF url_ok THEN [ok |-> TRUE, tx_id |-> "tx", err |-> ""]
    ELSE [ok |-> FALSE, tx_id |-> "", err |-> "rpc call failed: invalid rpc url"]

\* KeetaClient::verify_pool_reserves followed by the caller's unwrap_or(0)
verify_pool_reserves(url_ok, storage_account, token) == 0

\* KeetaClient::verify_acl: Ok(true), or Err when the url is bad
verify_acl(url_ok) == IF url_ok THEN "true" ELSE "err"

\* a faulty worker loop: a failed chain call is reported and the withdrawal is
\* left as it is
worker_process_DropsError(L, op, url_ok) ==
    IF op.kind = "Withdraw" /\ send_on_behalf(url_ok).ok
    THEN complete_withdrawal(L, op.id, op.user_id, op.token, op.amount,
                             send_on_behalf(url_ok).tx_id)
    ELSE L

\* one iteration of the worker loop on op: the ledger afterwards
worker_process(L, op, url_ok) ==
    IF op.kind = "Withdraw"
    THEN IF send_on_behalf(url_ok).ok
         THEN complete_withdrawal(L, op.id, op.user_id, op.token, op.amount,
                                  send_on_behalf(url_ok).tx_id)
         ELSE fail_withdrawal(L, op.id, op.user_id, op.token, op.amount,
                              send_on_behalf(url_ok).err)
    ELSE L

-----------------------------------------------------------------------------
(* Account reconciliation (reconcile.rs) *)

\* AUTO_CORRECT_THRESHOLD = 0.0001 tokens = 1 / AUTO_CORRECT_THRESHOLD_INV
AUTO_CORRECT_THRESHOLD_INV == 10000

\* |diff| <= f64::EPSILON, for a diff counted in whole tokens
WithinEpsilon(diff) == IF whole_amounts THEN diff = 0 ELSE F64Le(F64Abs(diff), F64_EPSILON)

WithinAutoCorrect(diff) ==
    IF whole_amounts THEN Abs(diff) * AUTO_CORRECT_THRESHOLD_INV <= 1
    ELSE F64Le(F64Abs(diff), F64Dec(1, AUTO_CORRECT_THRESHOLD_INV))

account_status(diff) ==
    IF WithinEpsilon(diff) THEN "Healthy"
    ELSE IF WithinAutoCorrect(diff) THEN "AutoCorrected"
    ELSE "Drift"

\* the body of run_once's loop for one key: [ledger, report]
reconcile_account(L, user, token) ==
    LET internal_total == internal_balance(L, user, token)[2]
        on_chain == on_chain_balance(L, user, token)
        initial_diff == Minus(on_chain, internal_total)
        status == account_status(initial_diff)
        L1 == IF status = "AutoCorrected"
              THEN adjust_internal_balances(L, user, token, initial_diff)
              ELSE L
        corrected_total == internal_balance(L1, user, token)[2]
    IN [ledger |-> L1,
        report |-> [status |-> status, on_chain |-> on_chain,
                    drift |-> Minus(on_chain, corrected_total)]]

-----------------------------------------------------------------------------
(* Pool manager and pool math (pool.rs).  u64/u128 values are integers;     *)
(* the model's values stay far below the widths, so no cast truncates.      *)

MINIMUM_LIQUIDITY == 1

RECURSIVE sqrt_iter(_, _, _)
sqrt_iter(n, x, y) == IF y < x THEN sqrt_iter(n, y, (y + n \div y) \div 2) ELSE x

\* IntegerSqrt::integer_sqrt
integer_sqrt(n) == IF n < 2 THEN n ELSE sqrt_iter(n, n, (n + 1) \div 2)

Ok(v) == [ok |-> TRUE, val |-> v, err |-> ""]
Err(e) == [ok |-> FALSE, val |-> 0, err |-> e]

\* (a as u128 * b as u128).integer_sqrt().  The square root of a * a is a;
\* the products of the model's other amounts stay below 2^31.
integer_sqrt_of_product(a, b) == IF a = b THEN a ELSE integer_sqrt(a * b)

calculate_initial_liquidity(amount_a, amount_b) ==
    LET liquidity == integer_sqrt_of_product(amount_a, amount_b) IN
    IF liquidity <= MINIMUM_LIQUIDITY THEN Err("InsufficientLiquidity")
    ELSE Ok(liquidity - MINIMUM_LIQUIDITY)

ConstantProduct == [kind |-> "ConstantProduct", amplification |-> 0,
                    weight_a |-> 0, weight_b |-> 0]
StableSwap(amplification) == [kind |-> "StableSwap", amplification |-> amplification,
                              weight_a |-> 0, weight_b |-> 0]
Weighted(weight_a, weight_b) == [kind |-> "Weighted", amplification |-> 0,
                                 weight_a |-> weight_a, weight_b |-> weight_b]

\* the LiquidityPool PoolManager::create_pool builds
NewPool(token_a, token_b, initial_a, initial_b, liquidity, fee_rate, pool_type) ==
    [id |-> PoolIdOf(token_a, token_b), token_a |-> token_a, token_b |-> token_b,
     reserve_a |-> initial_a, reserve_b |-> initial_b, total_lp_supply |-> liquidity,
     storage_account |-> "S_pool_" \o token_a \o "_" \o token_b,
     lp_token |-> LpTokenOf(token_a, token_b),
     fee_rate |-> fee_rate, pool_type |-> pool_type, paused |-> FALSE,
     protocol_fees_a |-> 0, protocol_fees_b |-> 0,
     on_chain_storage_account |-> "", on_chain_reserve_a |-> 0, on_chain_reserve_b |-> 0,
     last_reconciled_at |-> None, pending_settlement |-> FALSE,
     last_swap_signature |-> None, last_swap_at |-> None,
     last_swap_token_in |-> None, last_swap_token_out |-> None,
     last_swap_amount_in |-> <<>>, last_swap_amount_out |-> <<>>]

\* PoolManager::create_pool: [res, pools, pool_id]
create_pool(P, token_a, token_b, initial_a, initial_b, fee_rate, pool_type) ==
    LET pool_id == PoolIdOf(token_a, token_b)
        liquidity == calculate_initial_liquidity(initial_a, initial_b)
    IN IF pool_id \in DOMAIN P
       THEN [res |-> "PoolAlreadyExists", pools |-> P, pool_id |-> pool_id]
       ELSE IF ~liquidity.ok
       THEN [res |-> liquidity.err, pools |-> P, pool_id |-> pool_id]
       ELSE [res |-> "Ok", pool_id |-> pool_id,
             pools |-> Put(P, pool_id, NewPool(token_a, token_b, initial_a, initial_b,
                                               liquidity.val, fee_rate, pool_type))]

\* The mutators return the registry unchanged on PoolNotFound.
update_storage_account(P, pool_id, storage_account) ==
    IF pool_id \notin DOMAIN P THEN P
    ELSE [P EXCEPT ![pool_id].on_chain_storage_account = storage_account,
                   ![pool_id].pending_settlement = FALSE]

pause_pool(P, pool_id) ==
    IF pool_id \notin DOMAIN P THEN P ELSE [P EXCEPT ![pool_id].paused = TRUE]

unpause_pool(P, pool_id) ==
    IF pool_id \notin DOMAIN P THEN P ELSE [P EXCEPT ![pool_id].paused = FALSE]

update_on_chain_reserves(P, pool_id, reserve_a, reserve_b) ==
    IF pool_id \notin DOMAIN P THEN P
    ELSE [P EXCEPT ![pool_id].on_chain_reserve_a = reserve_a,
                   ![pool_id].on_chain_reserve_b = reserve_b,
                   ![pool_id].last_reconciled_at = "now"]

update_reconciliation(P, pool_id, on_chain_reserve_a, on_chain_reserve_b, timestamp) ==
    IF pool_id \notin DOMAIN P THEN P
    ELSE [P EXCEPT ![pool_id].on_chain_reserve_a = on_chain_reserve_a,
                   ![pool_id].on_chain_reserve_b = on_chain_reserve_b,
                   ![pool_id].last_reconciled_at = timestamp,
                   ![pool_id].pending_settlement = FALSE]

\* a faulty record_swap_confirmation: the swap is applied to the reserves
record_swap_confirmation_Optimistic(P, pool_id, token_in, token_out, amount_in, amount_out, tx_signature, confirmed_at) ==
    IF pool_id \notin DOMAIN P THEN [res |-> "PoolNotFound", pools |-> P]
    ELSE [res |-> "Ok",
          pools |-> [P EXCEPT ![pool_id].pending_settlement = TRUE,
                              ![pool_id].last_swap_signature = tx_signature,
                              ![pool_id].last_swap_at =
                                  IF confirmed_at = None THEN "now" ELSE confirmed_at,
                              ![pool_id].last_swap_token_in = token_in,
                              ![pool_id].last_swap_token_out = token_out,
                              ![pool_id].last_swap_amount_in = <<amount_in>>,
                              ![pool_id].last_swap_amount_out = <<amount_out>>,
                              ![pool_id].reserve_a = @ + amount_in]]

\* PoolManager::record_swap_confirmation: [res, pools]
record_swap_confirmation(P, pool_id, token_in, token_out, amount_in, amount_out, tx_signature, confirmed_at) ==
    IF pool_id \notin DOMAIN P THEN [res |-> "PoolNotFound", pools |-> P]
    ELSE [res |-> "Ok",
          pools |-> [P EXCEPT ![pool_id].pending_settlement = TRUE,
                              ![pool_id].last_swap_signature = tx_signature,
                              ![pool_id].last_swap_at =
                                  IF confirmed_at = None THEN "now" ELSE confirmed_at,
                              ![pool_id].last_swap_token_in = token_in,
                              ![pool_id].last_swap_token_out = token_out,
                              ![pool_id].last_swap_amount_in = <<amount_in>>,
                              ![pool_id].last_swap_amount_out = <<amount_out>>]]

\* numerator / ((reserve_in as u128 * 10000) + amount_in_with_fee).  Where the
\* denominator passes 32 bits it is H * 10000 + l with l < 10000, and the
\* quotient is the largest q with q * H * 10000 + q * l <= numerator.
U128Quotient(numerator, reserve_in, amount_in_with_fee) ==
    IF reserve_in <= 200000 /\ amount_in_with_fee <= 100000000
    THEN numerator \div ((reserve_in * 10000) + amount_in_with_fee)
    ELSE LET H == reserve_in + amount_in_with_fee \div 10000
             l == amount_in_with_fee % 10000
             Fits(q) == q * l <= numerator /\ q * H <= (numerator - q * l) \div 10000
         IN CHOOSE q \in ((numerator \div 10000) \div (H + 1))..((numerator \div 10000) \div H) :
                Fits(q) /\ (q = (numerator \div 10000) \div H \/ ~Fits(q + 1))

\* a faulty constant_product_out: the reserve is not scaled in the denominator
constant_product_out_Unscaled(pool, amount_in, reserve_in, reserve_out) ==
    IF amount_in = 0 THEN Err("InsufficientInputAmount")
    ELSE IF reserve_in = 0 \/ reserve_out = 0 THEN Err("InsufficientLiquidity")
    ELSE LET amount_in_with_fee == (amount_in * (10000 - pool.fee_rate)) \div 10000
             numerator == amount_in_with_fee * reserve_out
             amount_out == numerator \div (reserve_in + amount_in_with_fee)
         IN IF amount_out = 0 THEN Err("InsufficientOutputAmount") ELSE Ok(amount_out)

constant_product_out(pool, amount_in, reserve_in, reserve_out) ==
    IF amount_in = 0 THEN Err("InsufficientInputAmount")
    ELSE IF reserve_in = 0 \/ reserve_out = 0 THEN Err("InsufficientLiquidity")
    ELSE LET amount_in_with_fee == (amount_in * (10000 - pool.fee_rate)) \div 10000
             numerator == amount_in_with_fee * reserve_out
             amount_out == U128Quotient(numerator, reserve_in, amount_in_with_fee)
         IN IF amount_out = 0 THEN Err("InsufficientOutputAmount") ELSE Ok(amount_out)

\* balance_ratio < 1.1, the ratio being larger / smaller reserve (NaN and inf
\* compare false)
Balanced(reserve_in, reserve_out) ==
    /\ reserve_in > 0
    /\ reserve_out > 0
    /\ 10 * Max(reserve_in, reserve_out) < 11 * Min(reserve_in, reserve_out)

stable_swap_out(pool, amount_in, reserve_in, reserve_out, amplification) ==
    IF Balanced(reserve_in, reserve_out)
    THEN LET amplified_reserve_in == reserve_in * amplification
             amplified_reserve_out == reserve_out * amplification
             amount_in_with_fee == (amount_in * (10000 - pool.fee_rate)) \div 10000
             numerator == amount_in_with_fee * amplified_reserve_out
             denominator == amplified_reserve_in + amount_in_with_fee
         IN Ok(numerator \div denominator)
    ELSE constant_product_out(pool, amount_in, reserve_in, reserve_out)

RECURSIVE Gcd(_, _)
Gcd(a, b) == IF b = 0 THEN a ELSE Gcd(b, a % b)

RECURSIVE Pow(_, _)
Pow(x, n) == IF n = 0 THEN 1 ELSE x * Pow(x, n - 1)

\* floor(reserve_out * (1 - (reserve_in / (reserve_in + a))^(wi/wo))) for real
\* arithmetic: the largest k with (reserve_in/(reserve_in+a))^wi <= ((reserve_out-k)/reserve_out)^wo
WeightedFloor(reserve_in, reserve_out, a, wi, wo) ==
    LET g == Gcd(wi, wo)
        p == wi \div g
        q == wo \div g
    IN IF reserve_in + a = 0 \/ wo = 0 \/ reserve_out = 0 THEN 0
       ELSE CHOOSE k \in 0..reserve_out :
              /\ Pow(reserve_in, p) * Pow(reserve_out, q) <= Pow(reserve_in + a, p) * Pow(reserve_out - k, q)
              /\ \A j \in (k + 1)..reserve_out :
                   Pow(reserve_in, p) * Pow(reserve_out, q) > Pow(reserve_in + a, p) * Pow(reserve_out - j, q)

weighted_pool_out(pool, amount_in, reserve_in, reserve_out, weight_in, weight_out) ==
    LET amount_in_with_fee == (amount_in * (10000 - pool.fee_rate)) \div 10000
        amount_out == WeightedFloor(reserve_in, reserve_out, amount_in_with_fee,
                                    weight_in, weight_out)
    IN IF amount_out = 0 THEN Err("InsufficientOutputAmount") ELSE Ok(amount_out)

get_amount_out(pool, amount_in, token_in) ==
    IF pool.paused THEN Err("PoolPaused")
    ELSE IF token_in # pool.token_a /\ token_in # pool.token_b THEN Err("InvalidToken")
    ELSE LET reserve_in == IF token_in = pool.token_a THEN pool.reserve_a ELSE pool.reserve_b
             reserve_out == IF token_in = pool.token_a THEN pool.reserve_b ELSE pool.reserve_a
         IN CASE pool.pool_type.kind = "ConstantProduct" ->
                   constant_product_out(pool, amount_in, reserve_in, reserve_out)
              [] pool.pool_type.kind = "StableSwap" ->
                   stable_swap_out(pool, amount_in, reserve_in, reserve_out,
                                   pool.pool_type.amplification)
              [] OTHER ->
                   weighted_pool_out(pool, amount_in, reserve_in, reserve_out,
                       IF token_in = pool.token_a THEN pool.pool_type.weight_a
                       ELSE pool.pool_type.weight_b,
                       IF token_in = pool.token_a THEN pool.pool_type.weight_b
                       ELSE pool.pool_type.weight_a)

\* a faulty get_amount_in: the paused flag is not looked at
get_amount_in_Unchecked(pool, amount_out, token_out) ==
    IF token_out # pool.token_a /\ token_out # pool.token_b THEN Err("InvalidToken")
    ELSE LET reserve_in == IF token_out = pool.token_a THEN pool.reserve_b ELSE pool.reserve_a
             reserve_out == IF token_out = pool.token_a THEN pool.reserve_a ELSE pool.reserve_b
         IN IF amount_out >= reserve_out THEN Err("InsufficientLiquidity")
            ELSE Ok((reserve_in * amount_out * 10000)
                      \div ((reserve_out - amount_out) * (10000 - pool.fee_rate)) + 1)

get_amount_in(pool, amount_out, token_out) ==
    IF pool.paused THEN Err("PoolPaused")
    ELSE IF token_out # pool.token_a /\ token_out # pool.token_b THEN Err("InvalidToken")
    ELSE LET reserve_in == IF token_out = pool.token_a THEN pool.reserve_b ELSE pool.reserve_a
             reserve_out == IF token_out = pool.token_a THEN pool.reserve_a ELSE pool.reserve_b
         IN IF amount_out >= reserve_out THEN Err("InsufficientLiquidity")
            ELSE Ok((reserve_in * amount_out * 10000)
                      \div ((reserve_out - amount_out) * (10000 - pool.fee_rate)) + 1)

\* A panic of the running thread (integer overflow, division by zero).
Panic == [ok |-> FALSE, val |-> 0, err |-> "panic"]

\* (x as u128 * y as u128) / d as u128, for x and y below 2^30 and d below
\* 2^20.  A product that passes 2^31 is formed on limbs of 10 bits, p4..p0
\* being the sums of limb products of equal weight, and divided limb by limb
\* from the highest; the quotient is the value of the digits q4..q0.
MulDiv(x, y, d) ==
    IF x <= 46340 /\ y <= 46340 THEN (x * y) \div d
    ELSE LET x0 == x % 1024
             x1 == (x \div 1024) % 1024
             x2 == x \div 1048576
             y0 == y % 1024
             y1 == (y \div 1024) % 1024
             y2 == y \div 1048576
             c4 == x2 * y2
             c3 == (c4 % d) * 1024 + x2 * y1 + x1 * y2
             c2 == (c3 % d) * 1024 + x2 * y0 + x1 * y1 + x0 * y2
             c1 == (c2 % d) * 1024 + x1 * y0 + x0 * y1
             c0 == (c1 % d) * 1024 + x0 * y0
         IN ((((c4 \div d) * 1024 + c3 \div d) * 1024 + c2 \div d) * 1024
                + c1 \div d) * 1024 + c0 \div d

\* With total_lp_supply = 0 the source returns sqrt(a * b) - 1000 in u64, which
\* overflows below 1000; with a zero reserve it divides by zero.  Both panic
\* (the wrapped value of a build without overflow checks is not modelled).
\* a faulty calculate_lp_mint: the larger of the two ratios is minted
calculate_lp_mint_LargerRatio(pool, amount_a, amount_b) ==
    IF pool.total_lp_supply = 0
    THEN IF integer_sqrt_of_product(amount_a, amount_b) >= 1000
         THEN Ok(integer_sqrt_of_product(amount_a, amount_b) - 1000)
         ELSE Panic
    ELSE IF pool.reserve_a = 0 \/ pool.reserve_b = 0 THEN Panic
    ELSE
    LET liquidity_a == MulDiv(amount_a, pool.total_lp_supply, pool.reserve_a)
        liquidity_b == MulDiv(amount_b, pool.total_lp_supply, pool.reserve_b)
        liquidity == Max(liquidity_a, liquidity_b)
    IN IF liquidity = 0 THEN Err("InsufficientLiquidityMinted") ELSE Ok(liquidity)

calculate_lp_mint(pool, amount_a, amount_b) ==
    IF pool.total_lp_supply = 0
    THEN IF integer_sqrt_of_product(amount_a, amount_b) >= 1000
         THEN Ok(integer_sqrt_of_product(amount_a, amount_b) - 1000)
         ELSE Panic
    ELSE IF pool.reserve_a = 0 \/ pool.reserve_b = 0 THEN Panic
    ELSE
    LET liquidity_a == MulDiv(amount_a, pool.total_lp_supply, pool.reserve_a)
        liquidity_b == MulDiv(amount_b, pool.total_lp_supply, pool.reserve_b)
        liquidity == Min(liquidity_a, liquidity_b)
    IN IF liquidity = 0 THEN Err("InsufficientLiquidityMinted") ELSE Ok(liquidity)

\* <<amount_a, amount_b>>
calculate_optimal_amounts(pool, amount_a_desired, amount_b_desired) ==
    IF pool.reserve_a = 0 \/ pool.reserve_b = 0
    THEN <<amount_a_desired, amount_b_desired>>
    ELSE LET amount_b_optimal == (amount_a_desired * pool.reserve_b) \div pool.reserve_a
         IN IF amount_b_optimal <= amount_b_desired
            THEN <<amount_a_desired, amount_b_optimal>>
            ELSE <<(amount_b_desired * pool.reserve_a) \div pool.reserve_b, amount_b_desired>>

\* the value is <<amount_a, amount_b>>
calculate_remove_amounts(pool, lp_tokens) ==
    IF lp_tokens = 0 THEN [ok |-> FALSE, val |-> <<0, 0>>, err |-> "InsufficientLiquidityBurned"]
    ELSE IF lp_tokens > pool.total_lp_supply
    THEN [ok |-> FALSE, val |-> <<0, 0>>, err |-> "InsufficientLPTokens"]
    ELSE [ok |-> TRUE, err |-> "",
          val |-> <<MulDiv(lp_tokens, pool.reserve_a, pool.total_lp_supply),
                    MulDiv(lp_tokens, pool.reserve_b, pool.total_lp_supply)>>]

\* calculate_price_impact returns an f64; only whether it succeeds is modelled
calculate_price_impact(pool, amount_in, token_in) ==
    IF token_in # pool.token_a /\ token_in # pool.token_b THEN Err("InvalidToken")
    ELSE IF ~get_amount_out(pool, amount_in, token_in).ok
    THEN Err(get_amount_out(pool, amount_in, token_in).err)
    ELSE Ok(0)

\* LiquidityPool::execute_swap: [res, pool]
execute_swap(pool, amount_in, token_in, min_amount_out) ==
    LET out == get_amount_out(pool, amount_in, token_in)
        protocol_fee == (((amount_in * pool.fee_rate) \div 10000) * 20) \div 100
    IN IF ~out.ok THEN [res |-> out, pool |-> pool]
       ELSE IF out.val < min_amount_out THEN [res |-> Err("SlippageExceeded"), pool |-> pool]
       ELSE IF token_in = pool.token_a
       THEN [res |-> out,
             pool |-> [pool EXCEPT !.reserve_a = @ + amount_in, !.reserve_b = @ - out.val,
                                   !.protocol_fees_a = @ + protocol_fee]]
       ELSE [res |-> out,
             pool |-> [pool EXCEPT !.reserve_b = @ + amount_in, !.reserve_a = @ - out.val,
                                   !.protocol_fees_b = @ + protocol_fee]]

\* LiquidityPool::add_liquidity: [res, pool]
add_liquidity(pool, amount_a, amount_b, min_liquidity) ==
    LET lp_tokens == calculate_lp_mint(pool, amount_a, amount_b) IN
    IF ~lp_tokens.ok THEN [res |-> lp_tokens, pool |-> pool]
    ELSE IF lp_tokens.val < min_liquidity
    THEN [res |-> Err("SlippageExceeded"), pool |-> pool]
    ELSE [res |-> lp_tokens,
          pool |-> [pool EXCEPT !.reserve_a = @ + amount_a, !.reserve_b = @ + amount_b,
                                !.total_lp_supply = @ + lp_tokens.val]]

\* a faulty remove_liquidity: the burned LP stays in the supply
remove_liquidity_KeepsSupply(pool, lp_tokens, min_amount_a, min_amount_b) ==
    LET amounts == calculate_remove_amounts(pool, lp_tokens) IN
    IF ~amounts.ok THEN [res |-> amounts, pool |-> pool]
    ELSE IF amounts.val[1] < min_amount_a \/ amounts.val[2] < min_amount_b
    THEN [res |-> [ok |-> FALSE, val |-> <<0, 0>>, err |-> "SlippageExceeded"], pool |-> pool]
    ELSE [res |-> amounts,
          pool |-> [pool EXCEPT !.reserve_a = @ - amounts.val[1],
                                !.reserve_b = @ - amounts.val[2]]]

\* LiquidityPool::remove_liquidity: [res, pool]
remove_liquidity(pool, lp_tokens, min_amount_a, min_amount_b) ==
    LET amounts == calculate_remove_amounts(pool, lp_tokens) IN
    IF ~amounts.ok THEN [res |-> amounts, pool |-> pool]
    ELSE IF amounts.val[1] < min_amount_a \/ amounts.val[2] < min_amount_b
    THEN [res |-> [ok |-> FALSE, val |-> <<0, 0>>, err |-> "SlippageExceeded"], pool |-> pool]
    ELSE [res |-> amounts,
          pool |-> [pool EXCEPT !.reserve_a = @ - amounts.val[1],
                                !.reserve_b = @ - amounts.val[2],
                                !.total_lp_supply = @ - lp_tokens]]

-----------------------------------------------------------------------------
(* Pool request handlers (pool_api.rs) *)

AUTO_CREDIT == 10000000

\* a u64 string parsed with unwrap_or(0)
ParseU64(s) == IF s.ok /\ s.val >= 0 THEN s.val ELSE 0

auto_credit(L, wallet, token) ==
    IF internal_balance(L, wallet, token)[1] = Zero
    THEN credit(L, wallet, token, AsF64(AUTO_CREDIT))
    ELSE L

\* create_pool: [status, ledger, pools]
create_pool_request(L, P, wallet, token_a, token_b, amount_a, amount_b, fee_rate, pool_type) ==
    LET L1 == auto_credit(L, wallet, token_a)
        L2 == reserve(L1, wallet, token_a, AsF64(amount_a))
        L3 == auto_credit(L2, wallet, token_b)
        L4 == reserve(L3, wallet, token_b, AsF64(amount_b))
        made == create_pool(P, token_a, token_b, amount_a, amount_b, fee_rate, pool_type)
        P1 == update_storage_account(made.pools, made.pool_id,
                  "keeta:storage:pool:" \o made.pool_id \o ":" \o token_a \o ":" \o token_b)
        L5 == debit_total(debit_total(L4, wallet, token_a, AsF64(amount_a)), wallet, token_b, AsF64(amount_b))
    IN IF ~reserve_ok(L1, wallet, token_a, AsF64(amount_a))
       THEN [status |-> 400, ledger |-> L2, pools |-> P]
       ELSE IF ~reserve_ok(L3, wallet, token_b, AsF64(amount_b))
       THEN [status |-> 400, ledger |-> release(L4, wallet, token_a, AsF64(amount_a)), pools |-> P]
       ELSE IF made.res # "Ok"
       THEN [status |-> 400, pools |-> P,
             ledger |-> release(release(L4, wallet, token_a, AsF64(amount_a)),
                                wallet, token_b, AsF64(amount_b))]
       ELSE [status |-> 200, pools |-> P1,
             ledger |-> credit(L5, wallet, P1[made.pool_id].lp_token,
                               AsF64(P1[made.pool_id].total_lp_supply))]

\* add_liquidity: [status, ledger, queue]
add_liquidity_request(L, P, q, url_ok, wallet, pool_id, amount_a_desired, amount_b_desired) ==
    IF pool_id \notin DOMAIN P THEN [status |-> 404, ledger |-> L, queue |-> q]
    ELSE
    LET pool == P[pool_id]
        acl == IF pool.on_chain_storage_account # "" THEN verify_acl(url_ok) ELSE "true"
        amounts == calculate_optimal_amounts(pool, amount_a_desired, amount_b_desired)
        amount_a == amounts[1]
        amount_b == amounts[2]
        L1 == reserve(L, wallet, pool.token_a, AsF64(amount_a))
        L2 == reserve(L1, wallet, pool.token_b, AsF64(amount_b))
        mint == calculate_lp_mint(pool, amount_a, amount_b)
        lp_tokens == IF mint.ok THEN mint.val ELSE 1
        q1 == IF pool.on_chain_storage_account # ""
              THEN enqueue_pool_deposit(
                       enqueue_pool_deposit(q, wallet, pool.on_chain_storage_account,
                                            pool.token_a, amount_a),
                       wallet, pool.on_chain_storage_account, pool.token_b, amount_b)
              ELSE q
        L3 == debit_total(debit_total(L2, wallet, pool.token_a, AsF64(amount_a)),
                          wallet, pool.token_b, AsF64(amount_b))
    IN IF acl = "false" THEN [status |-> 403, ledger |-> L, queue |-> q]
       ELSE IF ~reserve_ok(L, wallet, pool.token_a, AsF64(amount_a))
       THEN [status |-> 400, ledger |-> L1, queue |-> q]
       ELSE IF ~reserve_ok(L1, wallet, pool.token_b, AsF64(amount_b))
       THEN [status |-> 400, ledger |-> release(L2, wallet, pool.token_a, AsF64(amount_a)),
             queue |-> q]
       ELSE IF mint = Panic THEN [status |-> 500, ledger |-> L2, queue |-> q]
       ELSE [status |-> 200, queue |-> q1,
             ledger |-> credit(L3, wallet, pool.lp_token, AsF64(lp_tokens))]

\* remove_liquidity: [status, ledger, queue]
remove_liquidity_request(L, P, q, wallet, pool_id, lp_tokens) ==
    IF pool_id \notin DOMAIN P THEN [status |-> 404, ledger |-> L, queue |-> q]
    ELSE
    LET pool == P[pool_id]
        total_lp == internal_balance(L, wallet, pool.lp_token)[2]
        amounts == calculate_remove_amounts(pool, lp_tokens)
        L1 == debit_total(L, wallet, pool.lp_token, AsF64(lp_tokens))
        q1 == IF pool.on_chain_storage_account # ""
              THEN enqueue_pool_withdraw(
                       enqueue_pool_withdraw(q, pool.on_chain_storage_account, wallet,
                                             pool.token_a, amounts.val[1]),
                       pool.on_chain_storage_account, wallet, pool.token_b, amounts.val[2])
              ELSE q
    IN IF pool.paused THEN [status |-> 400, ledger |-> L, queue |-> q]
       ELSE IF Less(total_lp, AsF64(lp_tokens)) THEN [status |-> 400, ledger |-> L, queue |-> q]
       ELSE IF ~amounts.ok THEN [status |-> 400, ledger |-> L, queue |-> q]
       ELSE [status |-> 200, queue |-> q1,
             ledger |-> credit(credit(L1, wallet, pool.token_a, AsF64(amounts.val[1])),
                               wallet, pool.token_b, AsF64(amounts.val[2]))]

\* quote: the status and, on success, the amount
quote(P, pool_id, token_in, amount_in) ==
    IF pool_id \notin DOMAIN P THEN [status |-> 404, res |-> Err("Pool not found")]
    ELSE IF get_amount_out(P[pool_id], amount_in, token_in).ok
    THEN [status |-> 200, res |-> get_amount_out(P[pool_id], amount_in, token_in)]
    ELSE [status |-> 400, res |-> get_amount_out(P[pool_id], amount_in, token_in)]

\* notify_pool_created: [status, pools]
notify_pool_created(P, body) ==
    LET initial_a == ParseU64(body.initial_a)
        initial_b == ParseU64(body.initial_b)
        made == create_pool(P, body.token_a, body.token_b, initial_a, initial_b, 30,
                            ConstantProduct)
        pool_id == IF made.res = "PoolAlreadyExists" THEN body.pool_id ELSE made.pool_id
        P1 == update_storage_account(made.pools, pool_id, body.storage_account)
        P2 == update_on_chain_reserves(P1, pool_id, initial_a, initial_b)
    IN IF made.res \notin {"Ok", "PoolAlreadyExists"}
       THEN [status |-> 400, pools |-> P]
       ELSE [status |-> 200, pools |-> unpause_pool(P2, pool_id)]

\* record_swap_telemetry: [status, pools].  min_amount_out is <<>> when absent.
record_swap_telemetry(P, body) ==
    LET r == record_swap_confirmation(P, body.pool_id, body.token_in, body.token_out,
                 body.amount_in.val, body.amount_out.val, body.tx_signature,
                 body.confirmed_at)
    IN IF body.pool_id \notin DOMAIN P THEN [status |-> 404, pools |-> P]
       ELSE IF ~(body.amount_in.ok /\ body.amount_in.val >= 0)
       THEN [status |-> 400, pools |-> P]
       ELSE IF ~(body.amount_out.ok /\ body.amount_out.val >= 0)
       THEN [status |-> 400, pools |-> P]
       ELSE IF /\ body.min_amount_out # <<>>
               /\ body.min_amount_out[1].ok
               /\ body.min_amount_out[1].val >= 0
               /\ body.amount_out.val < body.min_amount_out[1].val
       THEN [status |-> 400, pools |-> P]
       ELSE IF r.res # "Ok" THEN [status |-> 500, pools |-> P]
       ELSE [status |-> 200, pools |-> r.pools]

\* unpause_pool (the request): [status, pools]
unpause_pool_request(P, pool_id) ==
    IF pool_id \in DOMAIN P THEN [status |-> 200, pools |-> unpause_pool(P, pool_id)]
    ELSE [status |-> 400, pools |-> P]

\* a faulty withdraw: the amount is reserved but not taken from total
withdraw_NoDebit(L, q, seq, request) ==
    LET amount == request.amount.val
        L1 == reserve(L, request.user_id, request.token, amount)
        enq == enqueue(L1, q, seq + 1, request, amount, TRUE)
    IN IF ~(request.amount.ok /\ Less(Zero, amount))
       THEN [status |-> 400, ledger |-> L, queue |-> q, wd_seq |-> seq]
       ELSE IF ~reserve_ok(L, request.user_id, request.token, amount)
       THEN [status |-> 400, ledger |-> L1, queue |-> q, wd_seq |-> seq]
       ELSE [status |-> 202, ledger |-> enq.ledger, queue |-> enq.queue, wd_seq |-> seq + 1]

\* withdraw (api.rs): [status, ledger, queue, wd_seq]
withdraw(L, q, seq, request) ==
    LET amount == request.amount.val
        L1 == reserve(L, request.user_id, request.token, amount)
        L2 == debit_total(L1, request.user_id, request.token, amount)
        enq == enqueue(L2, q, seq + 1, request, amount, TRUE)
    IN IF ~(request.amount.ok /\ Less(Zero, amount))
       THEN [status |-> 400, ledger |-> L, queue |-> q, wd_seq |-> seq]
       ELSE IF ~reserve_ok(L, request.user_id, request.token, amount)
       THEN [status |-> 400, ledger |-> L1, queue |-> q, wd_seq |-> seq]
       ELSE [status |-> 202, ledger |-> enq.ledger, queue |-> enq.queue, wd_seq |-> seq + 1]

\* withdraw (api.rs): [status, ledger, queue, wd_seq, enqueued], where send_ok
\* tells whether the worker still holds the receiver of the channel
withdraw_on(L, q, seq, request, send_ok) ==
    LET amount == request.amount.val
        L1 == reserve(L, request.user_id, request.token, amount)
        L2 == debit_total(L1, request.user_id, request.token, amount)
        enq == enqueue(L2, q, seq + 1, request, amount, send_ok)
    IN IF ~(request.amount.ok /\ Less(Zero, amount))
       THEN [status |-> 400, ledger |-> L, queue |-> q, wd_seq |-> seq, enqueued |-> ""]
       ELSE IF ~reserve_ok(L, request.user_id, request.token, amount)
       THEN [status |-> 400, ledger |-> L1, queue |-> q, wd_seq |-> seq, enqueued |-> ""]
       ELSE [status |-> 202, ledger |-> enq.ledger, queue |-> enq.queue, wd_seq |-> seq + 1,
             enqueued |-> enq.status]

-----------------------------------------------------------------------------
(* Requests the clients send *)

\* Amounts are whole tokens in a run on whole amounts and decimal fractions of a
\* token otherwise: F64Dec(9, 10) is the f64 the text "0.9" parses to.
CreditRequests ==
    [user_id : {"alice"}, token : {"A"},
     amount : IF whole_amounts THEN {1, 2} ELSE {F64Dec(9, 10)}]
LimitOrder(market, side, price, quantity) ==
    [market |-> market, side |-> side, price |-> price, quantity |-> quantity]
Orders ==
    IF whole_amounts
    THEN {LimitOrder(<<"A", "B">>, "Sell", DecStr(2), DecStr(1)),
          LimitOrder(<<"B", "A">>, "Buy", DecStr(2), DecStr(1)),
          LimitOrder(<<"B", "A">>, "Buy", DecStr(-1), DecStr(1)),
          LimitOrder(<<"LP-A-B", "B">>, "Sell", DecStr(2), DecStr(1)),
          LimitOrder(<<"AB">>, "Sell", DecStr(2), DecStr(1)),
          LimitOrder(<<"A", "B">>, "Sell", DecStr(2), BadStr)}
    ELSE {LimitOrder(<<"A", "B">>, "Sell", DecStr(F64FromInt(2)), DecStr(F64Dec(2, 10))),
          LimitOrder(<<"B", "A">>, "Buy", DecStr(F64Dec(1, 10)), DecStr(F64FromInt(3))),
          LimitOrder(<<"A", "B">>, "Sell", DecStr(F64FromInt(2)), DecStr(F64FromInt(1)))}
PlaceRequests == [user_id : {"alice"}, order : Orders]
CancelRequests == [user_id : Users, id : 1..MaxOrders]
WithdrawRequests ==
    [user_id : {"alice"}, token : {"A"},
     amount : IF whole_amounts THEN {DecStr(0), DecStr(1), DecStr(2), BadStr}
              ELSE {DecStr(F64Dec(5, 100000)), DecStr(F64Dec(2, 10)), BadStr}]
CreatePoolRequests == [wallet_address : {"alice"}, token_a : {"A"}, token_b : {"B"},
                       initial_amount_a : {BadStr, DecStr(2)},
                       initial_amount_b : {DecStr(2)},
                       fee_rate : {<<>>}, pool_type : {None, "stable_swap"}]
AddLiquidityRequests == [wallet_address : {"alice"}, pool_id : {"A-B", "B-A"},
                         amount_a_desired : {BadStr, DecStr(2)},
                         amount_b_desired : {DecStr(2)}]
RemoveLiquidityRequests == [wallet_address : {"alice"}, pool_id : {"A-B", "B-A"},
                            lp_tokens : {BadStr, DecStr(1)}]
Notifications == [pool_id : {"A-B", "B-A"}, storage_account : {"S"},
                  token_a : {"A"}, token_b : {"B"},
                  initial_a : {DecStr(2)}, initial_b : {DecStr(2), BadStr}]
UnpauseRequests == {"A-B", "B-A"}
Tokens == {"A", "B"}

\* body.fee_rate.unwrap_or(30)
FeeRateOf(body) == IF body.fee_rate = <<>> THEN 30 ELSE body.fee_rate[1]

\* the match on body.pool_type.as_deref()
PoolTypeOf(body) ==
    CASE body.pool_type = "stable_swap" -> StableSwap(100)
      [] body.pool_type = "weighted" -> Weighted(80, 20)
      [] OTHER -> ConstantProduct

Idle == [phase |-> "idle", pool_id |-> "", reserve_a |-> 0, reserve_b |-> 0,
         on_chain_a |-> 0, on_chain_b |-> 0, drift_a |-> 0, drift_b |-> 0]

-----------------------------------------------------------------------------
(* The system: construction (main.rs) and one action per handler or task step *)

\* the model serves at most MaxRequests accepted client requests and
\* reconciliation iterations
\* no get_amount_out call has been answered yet
NoQuote == [amount_in |-> 0, token_in |-> "", res |-> Err("")]

Budget == credits + order_seq + wd_seq + pool_reqs + ticks < MaxRequests

Init ==
    /\ whole_amounts = TRUE
    /\ ledger = NewLedger
    /\ open_orders = <<>>
    /\ order_seq = 0
    /\ queue = <<>>
    /\ wd_seq = 0
    /\ rpc_ok \in BOOLEAN
    /\ reports = <<>>
    /\ pools = <<>>
    /\ rec = Idle
    /\ pool_reqs = 0
    /\ credits = 0
    /\ ticks = 0
    /\ quoted = NoQuote
    /\ rx_cmd = <<>>
    /\ cmds = <<>>
    /\ worker = NoOp
    /\ events = <<>>
    /\ creating = {}
    /\ crediting = {}

\* POST /balances/credit
CreditBalance ==
    \E payload \in CreditRequests :
        /\ credits < MaxCredits
        /\ Budget
        /\ ledger' = credit(ledger, payload.user_id, payload.token, payload.amount)
        /\ credits' = credits + 1
        /\ UNCHANGED <<crediting, rx_cmd, cmds, worker, events, creating, whole_amounts, quoted, open_orders, order_seq, queue, wd_seq, rpc_ok, reports, pools, rec,
                       pool_reqs, ticks>>

\* POST /orders/place, served by the engine task
PlaceOrder ==
    \E payload \in PlaceRequests :
        /\ order_seq < MaxOrders
        /\ Budget
        /\ LET r == handle_place(ledger, open_orders, order_seq, payload.user_id,
                                 payload.order) IN
              /\ ledger' = r.ledger
              /\ open_orders' = r.open_orders
              /\ order_seq' = r.order_seq
        /\ UNCHANGED <<crediting, rx_cmd, cmds, worker, events, creating, whole_amounts, quoted, queue, wd_seq, rpc_ok, reports, pools, rec, pool_reqs, credits, ticks>>

\* POST /orders/cancel/{id}, served by the engine task
CancelOrder ==
    \E payload \in CancelRequests :
        /\ LET r == handle_cancel(ledger, open_orders, payload.user_id, payload.id) IN
              /\ ledger' = r.ledger
              /\ open_orders' = r.open_orders
        /\ UNCHANGED <<crediting, rx_cmd, cmds, worker, events, creating, whole_amounts, quoted, order_seq, queue, wd_seq, rpc_ok, reports, pools, rec, pool_reqs,
                       credits, ticks>>

\* POST /withdrawals
Withdraw ==
    \E request \in WithdrawRequests :
        /\ wd_seq < MaxWithdrawals
        /\ Budget
        /\ LET r == withdraw(ledger, queue, wd_seq, request) IN
              /\ ledger' = r.ledger
              /\ queue' = r.queue
              /\ wd_seq' = r.wd_seq
        /\ UNCHANGED <<crediting, rx_cmd, cmds, worker, events, creating, whole_amounts, quoted, open_orders, order_seq, rpc_ok, reports, pools, rec, pool_reqs,
                       credits, ticks>>

\* one iteration of the settlement worker's loop
SettlementWorker ==
    /\ queue # <<>>
    /\ ledger' = worker_process(ledger, Head(queue), rpc_ok)
    /\ queue' = Tail(queue)
    /\ UNCHANGED <<crediting, rx_cmd, cmds, worker, events, creating, whole_amounts, quoted, open_orders, order_seq, wd_seq, rpc_ok, reports, pools, rec, pool_reqs,
                   credits, ticks>>

\* one iteration of run_once's loop over the account keys
ReconcileAccount ==
    \E key \in account_keys(ledger) :
        LET r == reconcile_account(ledger, key[1], key[2]) IN
        /\ Budget
        /\ ticks' = ticks + 1
        /\ ledger' = r.ledger
        /\ reports' = Put(reports, key, r.report)
        /\ UNCHANGED <<crediting, rx_cmd, cmds, worker, events, creating, whole_amounts, quoted, open_orders, order_seq, queue, wd_seq, rpc_ok, pools, rec,
                       pool_reqs, credits>>

\* POST /pools/create
CreatePool ==
    \E body \in CreatePoolRequests :
        /\ pool_reqs < MaxPoolReqs
        /\ Budget
        /\ LET r == create_pool_request(ledger, pools, body.wallet_address, body.token_a,
                        body.token_b, ParseU64(body.initial_amount_a),
                        ParseU64(body.initial_amount_b), FeeRateOf(body), PoolTypeOf(body))
           IN /\ ledger' = r.ledger
              /\ pools' = r.pools
              /\ pool_reqs' = IF r.status = 200 THEN pool_reqs + 1 ELSE pool_reqs
        /\ UNCHANGED <<crediting, rx_cmd, cmds, worker, events, creating, whole_amounts, quoted, open_orders, order_seq, queue, wd_seq, rpc_ok, reports, rec, credits, ticks>>

\* POST /pools/add-liquidity
AddLiquidity ==
    \E body \in AddLiquidityRequests :
        /\ pool_reqs < MaxPoolReqs
        /\ Budget
        /\ LET r == add_liquidity_request(ledger, pools, queue, rpc_ok, body.wallet_address,
                        body.pool_id, ParseU64(body.amount_a_desired),
                        ParseU64(body.amount_b_desired))
           IN /\ ledger' = r.ledger
              /\ queue' = r.queue
              /\ pool_reqs' = IF r.status = 200 THEN pool_reqs + 1 ELSE pool_reqs
        /\ UNCHANGED <<crediting, rx_cmd, cmds, worker, events, creating, whole_amounts, quoted, open_orders, order_seq, wd_seq, rpc_ok, reports, pools, rec, credits, ticks>>

\* POST /pools/remove-liquidity
RemoveLiquidity ==
    \E body \in RemoveLiquidityRequests :
        /\ pool_reqs < MaxPoolReqs
        /\ Budget
        /\ LET r == remove_liquidity_request(ledger, pools, queue, body.wallet_address,
                        body.pool_id, ParseU64(body.lp_tokens))
           IN /\ ledger' = r.ledger
              /\ queue' = r.queue
              /\ pool_reqs' = IF r.status = 200 THEN pool_reqs + 1 ELSE pool_reqs
        /\ UNCHANGED <<crediting, rx_cmd, cmds, worker, events, creating, whole_amounts, quoted, open_orders, order_seq, wd_seq, rpc_ok, reports, pools, rec, credits, ticks>>

\* POST /pools/created
NotifyPoolCreated ==
    \E body \in Notifications :
        /\ pool_reqs < MaxPoolReqs
        /\ Budget
        /\ LET r == notify_pool_created(pools, body) IN
              /\ pools' = r.pools
              /\ pool_reqs' = IF r.status = 200 THEN pool_reqs + 1 ELSE pool_reqs
        /\ UNCHANGED <<crediting, rx_cmd, cmds, worker, events, creating, whole_amounts, quoted, ledger, open_orders, order_seq, queue, wd_seq, rpc_ok, reports, rec,
                       credits, ticks>>

\* POST /pools/{id}/unpause
UnpausePool ==
    \E pool_id \in UnpauseRequests :
        /\ pool_reqs < MaxPoolReqs
        /\ Budget
        /\ LET r == unpause_pool_request(pools, pool_id) IN
              /\ pools' = r.pools
              /\ pool_reqs' = IF r.status = 200 THEN pool_reqs + 1 ELSE pool_reqs
        /\ UNCHANGED <<crediting, rx_cmd, cmds, worker, events, creating, whole_amounts, quoted, ledger, open_orders, order_seq, queue, wd_seq, rpc_ok, reports, rec,
                       credits, ticks>>

\* reconcile_pool, up to its first await: get_pool
RecBegin ==
    \E pool_id \in DOMAIN pools :
        /\ rec.phase = "idle"
        /\ Budget
        /\ ticks' = ticks + 1
        /\ rec' = [Idle EXCEPT !.phase = "read", !.pool_id = pool_id,
                               !.reserve_a = pools[pool_id].reserve_a,
                               !.reserve_b = pools[pool_id].reserve_b]
        /\ UNCHANGED <<crediting, rx_cmd, cmds, worker, events, creating, whole_amounts, quoted, ledger, open_orders, order_seq, queue, wd_seq, rpc_ok, reports, pools,
                       pool_reqs, credits>>

\* reconcile_pool, after the chain reads: the comparison and pause_pool on drift
RecCheck ==
    /\ rec.phase = "read"
    /\ LET pool == pools[rec.pool_id]
           on_chain_a == verify_pool_reserves(rpc_ok, pool.on_chain_storage_account,
                                              pool.token_a)
           on_chain_b == verify_pool_reserves(rpc_ok, pool.on_chain_storage_account,
                                              pool.token_b)
           drift_a == on_chain_a - rec.reserve_a
           drift_b == on_chain_b - rec.reserve_b
       IN /\ rec' = [rec EXCEPT !.phase = "update",
                                !.on_chain_a = on_chain_a, !.on_chain_b = on_chain_b,
                                !.drift_a = drift_a, !.drift_b = drift_b]
          /\ pools' = IF drift_a = 0 /\ drift_b = 0 THEN pools
                      ELSE pause_pool(pools, rec.pool_id)
    /\ UNCHANGED <<crediting, rx_cmd, cmds, worker, events, creating, whole_amounts, quoted, ledger, open_orders, order_seq, queue, wd_seq, rpc_ok, reports,
                   pool_reqs, credits, ticks>>

\* reconcile_pool, its last step: update_reconciliation
RecFinish ==
    /\ rec.phase = "update"
    /\ pools' = update_reconciliation(pools, rec.pool_id, rec.on_chain_a, rec.on_chain_b,
                                      "now")
    /\ rec' = Idle
    /\ UNCHANGED <<crediting, rx_cmd, cmds, worker, events, creating, whole_amounts, quoted, ledger, open_orders, order_seq, queue, wd_seq, rpc_ok, reports,
                   pool_reqs, credits, ticks>>

Next ==
    \/ CreditBalance
    \/ PlaceOrder
    \/ CancelOrder
    \/ Withdraw
    \/ SettlementWorker
    \/ ReconcileAccount
    \/ CreatePool
    \/ AddLiquidity
    \/ RemoveLiquidity
    \/ NotifyPoolCreated
    \/ UnpausePool
    \/ RecBegin
    \/ RecCheck
    \/ RecFinish

Spec == Init /\ [][Next]_vars

-----------------------------------------------------------------------------
(* The ledger, the order engine, withdrawals and account reconciliation on  *)
(* fractions of a token: the same handlers serving decimal amounts.         *)

InitFractions ==
    /\ whole_amounts = FALSE
    /\ ledger = NewLedger
    /\ open_orders = <<>>
    /\ order_seq = 0
    /\ queue = <<>>
    /\ wd_seq = 0
    /\ rpc_ok \in BOOLEAN
    /\ reports = <<>>
    /\ pools = <<>>
    /\ rec = Idle
    /\ pool_reqs = 0
    /\ credits = 0
    /\ ticks = 0
    /\ quoted = NoQuote
    /\ rx_cmd = <<>>
    /\ cmds = <<>>
    /\ worker = NoOp
    /\ events = <<>>
    /\ creating = {}
    /\ crediting = {}

NextFractions ==
    \/ CreditBalance
    \/ PlaceOrder
    \/ CancelOrder
    \/ Withdraw
    \/ SettlementWorker
    \/ ReconcileAccount

SpecFractions == InitFractions /\ [][NextFractions]_vars

-----------------------------------------------------------------------------
(* The pool methods on their own: a registry holding one pool made by a     *)
(* create request, and the LiquidityPool methods applied to it as the unit  *)
(* tests apply them, next to the liquidity requests.                        *)

PoolInitRequests == [wallet_address : {"alice"}, token_a : {"A"}, token_b : {"B"},
                     initial_amount_a : {DecStr(2), DecStr(5), DecStr(8)},
                     initial_amount_b : {DecStr(2), DecStr(4), DecStr(8)},
                     fee_rate : {<<>>, <<0>>},
                     pool_type : {None, "stable_swap", "weighted"}]
SwapAmounts == {0, 1, 3}
SwapTokens == {"A", "B", "C"}
MinAmounts == {0, 2}

InitPool ==
    /\ whole_amounts = TRUE
    /\ \E body \in PoolInitRequests :
        LET r == create_pool_request(NewLedger, <<>>, body.wallet_address, body.token_a,
                     body.token_b, ParseU64(body.initial_amount_a),
                     ParseU64(body.initial_amount_b), FeeRateOf(body), PoolTypeOf(body))
        IN /\ ledger = r.ledger
           /\ pools = r.pools
           /\ pool_reqs = 1
           /\ open_orders = <<>>
           /\ order_seq = 0
           /\ queue = <<>>
           /\ wd_seq = 0
           /\ rpc_ok \in BOOLEAN
           /\ reports = <<>>
           /\ rec = Idle
           /\ credits = 0
           /\ ticks = 0
           /\ quoted = NoQuote
           /\ rx_cmd = <<>>
           /\ cmds = <<>>
           /\ worker = NoOp
           /\ events = <<>>
           /\ creating = {}
           /\ crediting = {}

\* PoolManager::pause_pool
PoolPause ==
    \E pool_id \in DOMAIN pools :
        /\ pools' = pause_pool(pools, pool_id)
        /\ UNCHANGED <<crediting, rx_cmd, cmds, worker, events, creating, whole_amounts, quoted, ledger, open_orders, order_seq, queue, wd_seq, rpc_ok, reports, rec,
                       pool_reqs, credits, ticks>>

\* PoolManager::unpause_pool
PoolUnpause ==
    \E pool_id \in DOMAIN pools :
        /\ pools' = unpause_pool(pools, pool_id)
        /\ UNCHANGED <<crediting, rx_cmd, cmds, worker, events, creating, whole_amounts, quoted, ledger, open_orders, order_seq, queue, wd_seq, rpc_ok, reports, rec,
                       pool_reqs, credits, ticks>>

\* LiquidityPool::execute_swap
PoolExecuteSwap ==
    \E pool_id \in DOMAIN pools, amount_in \in SwapAmounts, token_in \in SwapTokens,
       min_amount_out \in MinAmounts :
        /\ pool_reqs < MaxPoolCalls
        /\ pools' = [pools EXCEPT ![pool_id] =
                        execute_swap(@, amount_in, token_in, min_amount_out).pool]
        /\ pool_reqs' = pool_reqs + 1
        /\ UNCHANGED <<crediting, rx_cmd, cmds, worker, events, creating, whole_amounts, quoted, ledger, open_orders, order_seq, queue, wd_seq, rpc_ok, reports, rec,
                       credits, ticks>>

\* LiquidityPool::add_liquidity
PoolAddLiquidity ==
    \E pool_id \in DOMAIN pools, amount_a \in SwapAmounts, amount_b \in SwapAmounts,
       min_liquidity \in MinAmounts :
        /\ pool_reqs < MaxPoolCalls
        /\ pools' = [pools EXCEPT ![pool_id] =
                        add_liquidity(@, amount_a, amount_b, min_liquidity).pool]
        /\ pool_reqs' = pool_reqs + 1
        /\ UNCHANGED <<crediting, rx_cmd, cmds, worker, events, creating, whole_amounts, quoted, ledger, open_orders, order_seq, queue, wd_seq, rpc_ok, reports, rec,
                       credits, ticks>>

\* LiquidityPool::remove_liquidity
PoolRemoveLiquidity ==
    \E pool_id \in DOMAIN pools, lp_tokens \in SwapAmounts, min_amount_a \in MinAmounts,
       min_amount_b \in MinAmounts :
        /\ pool_reqs < MaxPoolCalls
        /\ pools' = [pools EXCEPT ![pool_id] =
                        remove_liquidity(@, lp_tokens, min_amount_a, min_amount_b).pool]
        /\ pool_reqs' = pool_reqs + 1
        /\ UNCHANGED <<crediting, rx_cmd, cmds, worker, events, creating, whole_amounts, quoted, ledger, open_orders, order_seq, queue, wd_seq, rpc_ok, reports, rec,
                       credits, ticks>>

NextPool ==
    \/ PoolPause
    \/ PoolUnpause
    \/ PoolExecuteSwap
    \/ PoolAddLiquidity
    \/ PoolRemoveLiquidity
    \/ AddLiquidity
    \/ RemoveLiquidity

SpecPool == InitPool /\ [][NextPool]_vars

-----------------------------------------------------------------------------
(* The swap quote on its own: a registry holding one constant-product pool  *)
(* made by PoolManager::create_pool, as test_constant_product_swap makes    *)
(* it, and get_amount_out called on it.                                     *)

QuoteReserves == {2, 3, 2000, 1000000}
QuoteFees == {0, 30, 10000}
QuoteInputs == {0, 1, 2, 1000, 2000}
BurnAmounts == {0, 1}

InitQuote ==
    /\ whole_amounts = TRUE
    /\ \E initial_a \in QuoteReserves, initial_b \in QuoteReserves, fee_rate \in QuoteFees :
           pools = create_pool(<<>>, "A", "B", initial_a, initial_b, fee_rate,
                               ConstantProduct).pools
    /\ ledger = NewLedger
    /\ open_orders = <<>>
    /\ order_seq = 0
    /\ queue = <<>>
    /\ wd_seq = 0
    /\ rpc_ok = TRUE
    /\ reports = <<>>
    /\ rec = Idle
    /\ pool_reqs = 0
    /\ credits = 0
    /\ ticks = 0
    /\ quoted = NoQuote
    /\ rx_cmd = <<>>
    /\ cmds = <<>>
    /\ worker = NoOp
    /\ events = <<>>
    /\ creating = {}
    /\ crediting = {}

\* LiquidityPool::get_amount_out
QuoteAmountOut ==
    \E pool_id \in DOMAIN pools, amount_in \in QuoteInputs, token_in \in SwapTokens :
        /\ quoted' = [amount_in |-> amount_in, token_in |-> token_in,
                      res |-> get_amount_out(pools[pool_id], amount_in, token_in)]
        /\ UNCHANGED <<crediting, rx_cmd, cmds, worker, events, creating, whole_amounts, ledger, open_orders, order_seq, queue, wd_seq, rpc_ok,
                       reports, pools, rec, pool_reqs, credits, ticks>>

\* LiquidityPool::remove_liquidity, which can empty the reserves
QuoteRemoveLiquidity ==
    \E pool_id \in DOMAIN pools, lp_tokens \in BurnAmounts :
        /\ pool_reqs < MaxPoolCalls
        /\ pools' = [pools EXCEPT ![pool_id] = remove_liquidity(@, lp_tokens, 0, 0).pool]
        /\ pool_reqs' = pool_reqs + 1
        /\ UNCHANGED <<crediting, rx_cmd, cmds, worker, events, creating, whole_amounts, quoted, ledger, open_orders, order_seq, queue, wd_seq,
                       rpc_ok, reports, rec, credits, ticks>>

NextQuote ==
    \/ QuoteAmountOut
    \/ QuoteRemoveLiquidity
    \/ PoolPause
    \/ PoolUnpause

SpecQuote == InitQuote /\ [][NextQuote]_vars

-----------------------------------------------------------------------------
(* The liquidity methods called on a freshly created pool, as the unit tests
   test_add_liquidity and test_remove_liquidity call them. *)

LiquidityReserves == {2, 3, 1000000}
LiquidityDeposits == {0, 1, 100000}

\* the LP amounts a caller burns: none, one, a tenth of the supply, too many
LiquidityBurns(pool) == {0, 1, pool.total_lp_supply \div 10, pool.total_lp_supply + 1}

InitLiquidity ==
    /\ whole_amounts = TRUE
    /\ \E initial_a \in LiquidityReserves, initial_b \in LiquidityReserves :
           pools = create_pool(<<>>, "USDT", "USDX", initial_a, initial_b, 30,
                               ConstantProduct).pools
    /\ ledger = NewLedger
    /\ open_orders = <<>>
    /\ order_seq = 0
    /\ queue = <<>>
    /\ wd_seq = 0
    /\ rpc_ok = TRUE
    /\ reports = <<>>
    /\ rec = Idle
    /\ pool_reqs = 0
    /\ credits = 0
    /\ ticks = 0
    /\ quoted = NoQuote
    /\ rx_cmd = <<>>
    /\ cmds = <<>>
    /\ worker = NoOp
    /\ events = <<>>
    /\ creating = {}
    /\ crediting = {}

\* LiquidityPool::add_liquidity
LiquidityAdd ==
    \E pool_id \in DOMAIN pools, amount_a \in LiquidityDeposits,
       amount_b \in LiquidityDeposits, min_liquidity \in MinAmounts :
        /\ pool_reqs < MaxPoolCalls
        /\ pools' = [pools EXCEPT ![pool_id] =
                        add_liquidity(@, amount_a, amount_b, min_liquidity).pool]
        /\ pool_reqs' = pool_reqs + 1
        /\ UNCHANGED <<crediting, rx_cmd, cmds, worker, events, creating, whole_amounts, quoted, ledger, open_orders, order_seq, queue, wd_seq,
                       rpc_ok, reports, rec, credits, ticks>>

\* LiquidityPool::remove_liquidity
LiquidityRemove ==
    \E pool_id \in DOMAIN pools, min_amount_a \in MinAmounts, min_amount_b \in MinAmounts :
        \E lp_tokens \in LiquidityBurns(pools[pool_id]) :
            /\ pool_reqs < MaxPoolCalls
            /\ pools' = [pools EXCEPT ![pool_id] =
                            remove_liquidity(@, lp_tokens, min_amount_a, min_amount_b).pool]
            /\ pool_reqs' = pool_reqs + 1
            /\ UNCHANGED <<crediting, rx_cmd, cmds, worker, events, creating, whole_amounts, quoted, ledger, open_orders, order_seq, queue,
                           wd_seq, rpc_ok, reports, rec, credits, ticks>>

NextLiquidity ==
    \/ LiquidityAdd
    \/ LiquidityRemove
    \/ PoolPause
    \/ PoolUnpause

SpecLiquidity == InitLiquidity /\ [][NextLiquidity]_vars

-----------------------------------------------------------------------------
(* Swap telemetry and the settlement of pool ops on a created pool. *)

TelemetryRequests ==
    [pool_id : {"A-B", "X-Y"}, token_in : {"A"}, token_out : {"B"},
     amount_in : {DecStr(1), BadStr}, amount_out : {DecStr(1), BadStr},
     min_amount_out : {<<>>, <<DecStr(2)>>, <<BadStr>>},
     tx_signature : {"sig"}, confirmed_at : {None, "t1"}]

\* POST /pools/swap/telemetry
RecordSwapTelemetry ==
    \E body \in TelemetryRequests :
        /\ pools' = record_swap_telemetry(pools, body).pools
        /\ UNCHANGED <<crediting, rx_cmd, cmds, worker, events, creating, whole_amounts, quoted, ledger,
                       open_orders, order_seq, queue, wd_seq, rpc_ok, reports, rec,
                       pool_reqs, credits, ticks>>

NextTelemetry ==
    \/ RecordSwapTelemetry
    \/ SettlementWorker
    \/ AddLiquidity
    \/ RemoveLiquidity
    \/ PoolPause
    \/ PoolUnpause

SpecTelemetry == InitPool /\ [][NextTelemetry]_vars

-----------------------------------------------------------------------------
(* The pool registry under concurrent create_pool calls (pool.rs): a call
   tests contains_key, builds its pool and inserts it, and the DashMap is
   locked only inside each of the two map operations. *)

MaxCreates == 3
CreateAmounts == {0, 2, 3}

InitRegistry ==
    /\ whole_amounts = TRUE
    /\ ledger = NewLedger
    /\ open_orders = <<>>
    /\ order_seq = 0
    /\ queue = <<>>
    /\ wd_seq = 0
    /\ rpc_ok = TRUE
    /\ reports = <<>>
    /\ pools = <<>>
    /\ rec = Idle
    /\ pool_reqs = 0
    /\ credits = 0
    /\ ticks = 0
    /\ quoted = NoQuote
    /\ rx_cmd = <<>>
    /\ cmds = <<>>
    /\ worker = NoOp
    /\ events = <<>>
    /\ creating = {}
    /\ crediting = {}

\* PoolManager::create_pool up to its insert: the call returns at once with an
\* error, or has built the pool it is about to insert
RegistryCreateBegin ==
    \E token_a \in Tokens, token_b \in Tokens, initial_a \in CreateAmounts,
       initial_b \in CreateAmounts :
        /\ pool_reqs < MaxCreates
        /\ pool_reqs' = pool_reqs + 1
        /\ LET made == create_pool(pools, token_a, token_b, initial_a, initial_b, 30,
                                   ConstantProduct)
           IN creating' = IF made.res = "Ok"
                          THEN creating \cup {[call |-> pool_reqs + 1,
                                               pool |-> made.pools[made.pool_id]]}
                          ELSE creating
        /\ UNCHANGED <<crediting, rx_cmd, cmds, worker, events, whole_amounts, quoted, ledger,
                       open_orders, order_seq, queue, wd_seq, rpc_ok, reports, pools, rec,
                       credits, ticks>>

\* PoolManager::create_pool, self.pools.insert(pool_id, pool)
RegistryCreateInsert ==
    \E c \in creating :
        /\ pools' = Put(pools, c.pool.id, c.pool)
        /\ creating' = creating \ {c}
        /\ UNCHANGED <<crediting, rx_cmd, cmds, worker, events, whole_amounts, quoted, ledger,
                       open_orders, order_seq, queue, wd_seq, rpc_ok, reports, rec,
                       pool_reqs, credits, ticks>>

NextRegistry ==
    \/ RegistryCreateBegin
    \/ RegistryCreateInsert
    \/ PoolPause
    \/ PoolUnpause

SpecRegistry == InitRegistry /\ [][NextRegistry]_vars

-----------------------------------------------------------------------------
(* The order engine with its command channel (engine.rs): clients send
   commands, the engine task receives and handles them one by one. *)

MaxCommands == 3

PlaceCmd(user_id, order, resp) ==
    [kind |-> "Place", user_id |-> user_id, order |-> order, id |-> 0, resp |-> resp]

CancelCmd(user_id, id, resp) ==
    [kind |-> "Cancel", user_id |-> user_id, order |-> None, id |-> id, resp |-> resp]

\* a faulty recv: the command sent last is received first
recv_Last(rx) == [cmd |-> rx[Len(rx)], rest |-> SubSeq(rx, 1, Len(rx) - 1)]

\* UnboundedReceiver::recv on a channel that is not empty: [cmd, rest]
recv(rx) == [cmd |-> Head(rx), rest |-> Tail(rx)]

\* the match of run_engine's loop on one command: [res, ledger, open_orders, order_seq]
run_engine(L, oo, seq, cmd) ==
    IF cmd.kind = "Place"
    THEN handle_place(L, oo, seq, cmd.user_id, cmd.order)
    ELSE LET r == handle_cancel(L, oo, cmd.user_id, cmd.id)
         IN [res |-> r.res, ledger |-> r.ledger, open_orders |-> r.open_orders,
             order_seq |-> seq]

\* the balances the engine starts on
EngineLedger == credit(credit(NewLedger, "alice", "A", 2), "alice", "B", 1)

InitEngine ==
    /\ whole_amounts = TRUE
    /\ ledger = EngineLedger
    /\ open_orders = <<>>
    /\ order_seq = 0
    /\ queue = <<>>
    /\ wd_seq = 0
    /\ rpc_ok = TRUE
    /\ reports = <<>>
    /\ pools = <<>>
    /\ rec = Idle
    /\ pool_reqs = 0
    /\ credits = 0
    /\ ticks = 0
    /\ quoted = NoQuote
    /\ rx_cmd = <<>>
    /\ cmds = <<>>
    /\ worker = NoOp
    /\ events = <<>>
    /\ creating = {}
    /\ crediting = {}

\* Engine::place_order up to its await: the command and its oneshot sender
\* enter the channel
EnginePlaceOrder ==
    \E payload \in PlaceRequests :
        /\ Len(cmds) < MaxCommands
        /\ LET cmd == PlaceCmd(payload.user_id, payload.order, Len(cmds) + 1) IN
              /\ rx_cmd' = Append(rx_cmd, cmd)
              /\ cmds' = Append(cmds, [cmd |-> cmd, got |-> <<>>])
        /\ UNCHANGED <<crediting, worker, events, creating, whole_amounts, quoted, ledger, open_orders, order_seq,
                       queue, wd_seq, rpc_ok, reports, pools, rec, pool_reqs, credits, ticks>>

\* Engine::cancel_order up to its await
EngineCancelOrder ==
    \E payload \in CancelRequests :
        /\ Len(cmds) < MaxCommands
        /\ LET cmd == CancelCmd(payload.user_id, payload.id, Len(cmds) + 1) IN
              /\ rx_cmd' = Append(rx_cmd, cmd)
              /\ cmds' = Append(cmds, [cmd |-> cmd, got |-> <<>>])
        /\ UNCHANGED <<crediting, worker, events, creating, whole_amounts, quoted, ledger, open_orders, order_seq,
                       queue, wd_seq, rpc_ok, reports, pools, rec, pool_reqs, credits, ticks>>

\* one iteration of run_engine's loop: receive, handle, resp.send(result)
EngineTask ==
    /\ rx_cmd # <<>>
    /\ LET got == recv(rx_cmd)
           r == run_engine(ledger, open_orders, order_seq, got.cmd)
       IN /\ rx_cmd' = got.rest
          /\ ledger' = r.ledger
          /\ open_orders' = r.open_orders
          /\ order_seq' = r.order_seq
          /\ cmds' = [cmds EXCEPT ![got.cmd.resp].got = Append(@, r.res)]
    /\ UNCHANGED <<crediting, worker, events, creating, whole_amounts, quoted, queue, wd_seq, rpc_ok, reports,
                   pools, rec, pool_reqs, credits, ticks>>

NextEngine ==
    \/ EnginePlaceOrder
    \/ EngineCancelOrder
    \/ EngineTask

SpecEngine == InitEngine /\ [][NextEngine]_vars

-----------------------------------------------------------------------------
(* The settlement queue with its worker (settlement.rs): callers enqueue ops,
   the worker receives an op, settles it and writes the ledger back before it
   receives the next one. *)

MaxSettlements == 3

Event(ev, id) == [ev |-> ev, id |-> id]

\* a faulty worker loop: every op is settled in a task of its own, so the
\* loop is always ready to receive
worker_ready_Spawned(w) == TRUE

\* the worker loop is at rx.recv(): the op before has been settled
worker_ready(w) == w.kind = "None"

\* the op sent last, carrying the id minted for it (Uuid::new_v4)
WithId(q, id) == [q EXCEPT ![Len(q)].id = id]

InitSettlement ==
    /\ whole_amounts = TRUE
    /\ ledger = EngineLedger
    /\ open_orders = <<>>
    /\ order_seq = 0
    /\ queue = <<>>
    /\ wd_seq = 0
    /\ rpc_ok \in BOOLEAN
    /\ reports = <<>>
    /\ pools = <<>>
    /\ rec = Idle
    /\ pool_reqs = 0
    /\ credits = 0
    /\ ticks = 0
    /\ quoted = NoQuote
    /\ rx_cmd = <<>>
    /\ cmds = <<>>
    /\ worker = NoOp
    /\ events = <<>>
    /\ creating = {}
    /\ crediting = {}

\* POST /withdrawals, which calls SettlementQueue::enqueue
SettleWithdraw ==
    \E request \in WithdrawRequests :
        /\ wd_seq < MaxSettlements
        /\ LET r == withdraw_on(ledger, queue, wd_seq, request, worker.kind # "Gone") IN
              /\ ledger' = r.ledger
              /\ queue' = r.queue
              /\ wd_seq' = r.wd_seq
              /\ events' = IF r.enqueued = "pending"
                            THEN Append(events, Event("enqueue", r.wd_seq))
                            ELSE events
        /\ UNCHANGED <<crediting, rx_cmd, cmds, worker, creating, whole_amounts, quoted, open_orders, order_seq,
                       rpc_ok, reports, pools, rec, pool_reqs, credits, ticks>>

\* SettlementQueue::enqueue_pool_deposit: a failed send is logged and dropped
SettlePoolDeposit ==
    \E user_id \in Users, token \in Tokens :
        /\ wd_seq < MaxSettlements
        /\ queue' = IF worker.kind = "Gone" THEN queue
                     ELSE WithId(enqueue_pool_deposit(queue, user_id, "S_pool", token, 1),
                                 wd_seq + 1)
        /\ wd_seq' = wd_seq + 1
        /\ events' = IF worker.kind = "Gone" THEN events
                      ELSE Append(events, Event("enqueue", wd_seq + 1))
        /\ UNCHANGED <<crediting, rx_cmd, cmds, worker, creating, whole_amounts, quoted, ledger, open_orders,
                       order_seq, rpc_ok, reports, pools, rec, pool_reqs, credits, ticks>>

\* SettlementQueue::enqueue_pool_withdraw
SettlePoolWithdraw ==
    \E user_id \in Users, token \in Tokens :
        /\ wd_seq < MaxSettlements
        /\ queue' = IF worker.kind = "Gone" THEN queue
                     ELSE WithId(enqueue_pool_withdraw(queue, "S_pool", user_id, token, 1),
                                 wd_seq + 1)
        /\ wd_seq' = wd_seq + 1
        /\ events' = IF worker.kind = "Gone" THEN events
                      ELSE Append(events, Event("enqueue", wd_seq + 1))
        /\ UNCHANGED <<crediting, rx_cmd, cmds, worker, creating, whole_amounts, quoted, ledger, open_orders,
                       order_seq, rpc_ok, reports, pools, rec, pool_reqs, credits, ticks>>

\* the worker loop receives the next op and starts to settle it
WorkerRecv ==
    /\ worker_ready(worker)
    /\ queue # <<>>
    /\ worker' = recv(queue).cmd
    /\ queue' = recv(queue).rest
    /\ events' = Append(events, Event("start", recv(queue).cmd.id))
    /\ UNCHANGED <<crediting, rx_cmd, cmds, creating, whole_amounts, quoted, ledger, open_orders, order_seq,
                   wd_seq, rpc_ok, reports, pools, rec, pool_reqs, credits, ticks>>

\* the settlement of the op returns and the worker writes the ledger back
WorkerDone ==
    /\ worker.kind \notin {"None", "Gone"}
    /\ ledger' = worker_process(ledger, worker, rpc_ok)
    /\ worker' = NoOp
    /\ events' = Append(events, Event("done", worker.id))
    /\ UNCHANGED <<crediting, rx_cmd, cmds, creating, whole_amounts, quoted, open_orders, order_seq, queue,
                   wd_seq, rpc_ok, reports, pools, rec, pool_reqs, credits, ticks>>

\* the worker task ends while it waits in rx.recv() (the runtime shuts down):
\* the receiver is dropped and every later send fails
WorkerStop ==
    /\ worker.kind = "None"
    /\ worker' = [NoOp EXCEPT !.kind = "Gone"]
    /\ UNCHANGED <<crediting, rx_cmd, cmds, events, creating, whole_amounts, quoted, ledger, open_orders,
                   order_seq, queue, wd_seq, rpc_ok, reports, pools, rec, pool_reqs, credits,
                   ticks>>

NextSettlement ==
    \/ WorkerStop
    \/ SettleWithdraw
    \/ SettlePoolDeposit
    \/ SettlePoolWithdraw
    \/ WorkerRecv
    \/ WorkerDone

SpecSettlement == InitSettlement /\ [][NextSettlement]_vars

\* the worker task is polled whenever it can go on (tokio wakes it when an op
\* is in the channel), and every chain call returns
SpecSettlementLive ==
    SpecSettlement /\ WF_vars(WorkerRecv) /\ WF_vars(WorkerDone)

-----------------------------------------------------------------------------
(* The ledger keys that credits, orders and withdrawals touch, with every
   credit written to the history: no reconciliation and no pool request. *)

\* POST /internal/credit
ConserveCredit ==
    \E payload \in CreditRequests :
        /\ credits < MaxCredits
        /\ Budget
        /\ ledger' = credit(ledger, payload.user_id, payload.token, payload.amount)
        /\ credits' = credits + 1
        /\ events' = Append(events, [ev |-> "credit", id |-> credits + 1,
                                      user_id |-> payload.user_id,
                                      token |-> payload.token,
                                      amount |-> payload.amount])
        /\ UNCHANGED <<crediting, rx_cmd, cmds, worker, creating, whole_amounts, quoted, open_orders,
                       order_seq, queue, wd_seq, rpc_ok, reports, pools, rec, pool_reqs,
                       ticks>>

NextConserve ==
    \/ ConserveCredit
    \/ PlaceOrder
    \/ CancelOrder
    \/ Withdraw
    \/ SettlementWorker

SpecConserve == Init /\ [][NextConserve]_vars

-----------------------------------------------------------------------------
(* Ledger::credit next to the account reconciler (ledger.rs, reconcile.rs):
   credit writes the balances entry, lets go of it, and then writes the
   on_chain entry, while the reconciler's task reads both maps for the key. *)

\* Ledger::credit, the block that holds the balances entry
credit_balances(L, user, token, amt) ==
    LET e == Entry(L.balances, <<user, token>>)
    IN [L EXCEPT !.balances = Put(L.balances, <<user, token>>,
                                  <<Plus(e[1], amt), Plus(e[2], amt)>>)]

\* Ledger::credit, *on_chain += amt
credit_on_chain(L, user, token, amt) ==
    [L EXCEPT !.on_chain = Put(L.on_chain, <<user, token>>,
                               Plus(on_chain_balance(L, user, token), amt))]

\* POST /internal/credit, up to the end of the block on the balances entry
CreditBegin ==
    \E payload \in CreditRequests :
        /\ credits < MaxCredits
        /\ Budget
        /\ ledger' = credit_balances(ledger, payload.user_id, payload.token, payload.amount)
        /\ credits' = credits + 1
        /\ crediting' = crediting \cup {[call |-> credits + 1, payload |-> payload]}
        /\ UNCHANGED <<rx_cmd, cmds, worker, events, creating, whole_amounts, quoted,
                       open_orders, order_seq, queue, wd_seq, rpc_ok, reports, pools, rec,
                       pool_reqs, ticks>>

\* the rest of the call: the on_chain entry
CreditFinish ==
    \E c \in crediting :
        /\ ledger' = credit_on_chain(ledger, c.payload.user_id, c.payload.token,
                                     c.payload.amount)
        /\ crediting' = crediting \ {c}
        /\ UNCHANGED <<rx_cmd, cmds, worker, events, creating, whole_amounts, quoted,
                       open_orders, order_seq, queue, wd_seq, rpc_ok, reports, pools, rec,
                       pool_reqs, credits, ticks>>

NextCredit ==
    \/ CreditBegin
    \/ CreditFinish
    \/ ReconcileAccount

SpecCredit == Init /\ [][NextCredit]_vars

-----------------------------------------------------------------------------
(* Properties of the ledger *)

Available(key) == Entry(ledger.balances, key)[1]
Total(key) == Entry(ledger.balances, key)[2]

\* the ledger key an open order's reservation was taken from
OrderKey(o) == <<o.owner, reserve_token(o.order)>>

WithdrawalKey(w) == <<w.user_id, w.token>>

RECURSIVE OrderReservations(_, _)
OrderReservations(ids, key) ==
    IF ids = {} THEN 0
    ELSE LET id == CHOOSE x \in ids : TRUE
         IN (IF OrderKey(open_orders[id]) = key THEN open_orders[id].reserved ELSE 0)
            + OrderReservations(ids \ {id}, key)

RECURSIVE PendingWithdrawals(_, _)
PendingWithdrawals(ids, key) ==
    IF ids = {} THEN 0
    ELSE LET id == CHOOSE x \in ids : TRUE
             w == ledger.withdrawals[id]
         IN (IF WithdrawalKey(w) = key /\ w.status = "Pending" THEN w.amount.val ELSE 0)
            + PendingWithdrawals(ids \ {id}, key)

LedgerKeys ==
    DOMAIN ledger.balances
        \cup {OrderKey(open_orders[id]) : id \in DOMAIN open_orders}
        \cup {WithdrawalKey(ledger.withdrawals[id]) : id \in DOMAIN ledger.withdrawals}

\* C1: in every reachable state every (user, token) entry of the ledger has
\* 0 <= available <= total.
C1_AvailableWithinTotal ==
    \A key \in DOMAIN ledger.balances :
        0 <= Available(key) /\ Available(key) <= Total(key)

\* C2: in every reachable state, for every (user, token), total - available
\* equals the reserved amounts of that user's open orders on that token plus
\* the amounts of that user's Pending withdrawals of that token.
C2_ReservedIsOrdersPlusWithdrawals ==
    \A key \in LedgerKeys :
        Total(key) - Available(key)
            = OrderReservations(DOMAIN open_orders, key)
              + PendingWithdrawals(DOMAIN ledger.withdrawals, key)

\* C3: in every reachable state, for every open order, the ledger entry the
\* order reserved from has total - available >= the order's reserved amount.
C3_OpenOrderCollateralHeld ==
    \A id \in DOMAIN open_orders :
        Total(OrderKey(open_orders[id])) - Available(OrderKey(open_orders[id]))
            >= open_orders[id].reserved

-----------------------------------------------------------------------------
(* Properties of a paused pool *)

QuoteAmounts == SwapAmounts \cup MinAmounts \cup {8}

\* C4: for every paused pool get_amount_out and get_amount_in return
\* PoolPaused for every input, and calculate_price_impact, execute_swap and
\* the quote request built on them return an error.
C4_PausedPoolPricesNothing ==
    \A pool_id \in DOMAIN pools :
        pools[pool_id].paused =>
            \A amount \in QuoteAmounts, token \in SwapTokens, min \in MinAmounts :
                /\ get_amount_out(pools[pool_id], amount, token) = Err("PoolPaused")
                /\ get_amount_in(pools[pool_id], amount, token) = Err("PoolPaused")
                /\ ~calculate_price_impact(pools[pool_id], amount, token).ok
                /\ ~execute_swap(pools[pool_id], amount, token, min).res.ok
                /\ quote(pools, pool_id, token, amount).status = 400
                /\ quote(pools, pool_id, token, amount).res.err = "PoolPaused"

\* a paused pool whose reserves earlier swaps or deposits have moved apart
C4_Witness ==
    \E pool_id \in DOMAIN pools :
        /\ pools[pool_id].paused
        /\ pools[pool_id].reserve_a > pools[pool_id].reserve_b
        /\ pools[pool_id].protocol_fees_a + pools[pool_id].protocol_fees_b >= 0
        /\ pool_reqs = MaxPoolCalls

\* C5: while a pool is paused, execute_swap, add_liquidity and
\* remove_liquidity on it fail and leave reserve_a, reserve_b and
\* total_lp_supply unchanged, and the add-liquidity and remove-liquidity
\* requests for it are rejected without changing the ledger.
C5_PausedPoolFrozen ==
    \A pool_id \in DOMAIN pools :
        pools[pool_id].paused =>
            /\ \A a \in SwapAmounts, b \in SwapAmounts, token \in SwapTokens,
                  min \in MinAmounts :
                /\ ~execute_swap(pools[pool_id], a, token, min).res.ok
                /\ execute_swap(pools[pool_id], a, token, min).pool = pools[pool_id]
                /\ ~add_liquidity(pools[pool_id], a, b, min).res.ok
                /\ add_liquidity(pools[pool_id], a, b, min).pool = pools[pool_id]
                /\ ~remove_liquidity(pools[pool_id], a, min, min).res.ok
                /\ remove_liquidity(pools[pool_id], a, min, min).pool = pools[pool_id]
            /\ \A body \in AddLiquidityRequests :
                body.pool_id = pool_id =>
                    LET r == add_liquidity_request(ledger, pools, queue, rpc_ok,
                                 body.wallet_address, body.pool_id,
                                 ParseU64(body.amount_a_desired),
                                 ParseU64(body.amount_b_desired))
                    IN r.status # 200 /\ r.ledger = ledger
            /\ \A body \in RemoveLiquidityRequests :
                body.pool_id = pool_id =>
                    LET r == remove_liquidity_request(ledger, pools, queue,
                                 body.wallet_address, body.pool_id,
                                 ParseU64(body.lp_tokens))
                    IN r.status # 200 /\ r.ledger = ledger

\* C6: when a pool reconciliation that observed a nonzero drift finishes, the
\* pool is paused, its last_reconciled_at is set and a quote on it returns
\* PoolPaused, whatever requests ran between its steps.
C6_DriftLeavesPoolPaused ==
    [][(rec.phase = "update" /\ rec'.phase = "idle"
            /\ (rec.drift_a # 0 \/ rec.drift_b # 0))
        => /\ pools'[rec.pool_id].paused
           /\ pools'[rec.pool_id].last_reconciled_at # None
           /\ \A token \in Tokens, amount \in QuoteAmounts :
                quote(pools', rec.pool_id, token, amount).res.err = "PoolPaused"]_vars

-----------------------------------------------------------------------------
(* Properties of withdrawals *)

Withdrawals == DOMAIN ledger.withdrawals

\* the step settles withdrawal id with the given outcome
Settles(id, outcome) ==
    /\ ledger.withdrawals[id].status = "Pending"
    /\ ledger'.withdrawals[id].status = outcome

\* C7: a step that completes withdrawal id of amount a leaves the record
\* Completed with the transaction id and no error, lowers the on-chain mirror
\* of (user, token) by exactly a, and leaves available and total unchanged.
C7_CompleteWithdrawalEffects ==
    [][\A id \in Withdrawals :
        Settles(id, "Completed") =>
            LET w == ledger.withdrawals[id]
                key == WithdrawalKey(w)
            IN /\ ledger'.withdrawals[id].tx_id = send_on_behalf(rpc_ok).tx_id
               /\ ledger'.withdrawals[id].last_error = None
               /\ on_chain_balance(ledger', key[1], key[2])
                    = on_chain_balance(ledger, key[1], key[2]) - w.amount.val
               /\ Entry(ledger'.balances, key) = Entry(ledger.balances, key)]_vars

\* C8: a step that fails withdrawal id of amount a leaves the record Failed
\* with last_error the chain error, raises available and total of
\* (user, token) by exactly a, and leaves the on-chain mirror unchanged.
C8_FailWithdrawalEffects ==
    [][\A id \in Withdrawals :
        Settles(id, "Failed") =>
            LET w == ledger.withdrawals[id]
                key == WithdrawalKey(w)
            IN /\ ledger'.withdrawals[id].last_error = send_on_behalf(rpc_ok).err
               /\ ledger'.withdrawals[id].last_error # None
               /\ Entry(ledger'.balances, key)
                    = <<Available(key) + w.amount.val, Total(key) + w.amount.val>>
               /\ ledger'.on_chain = ledger.on_chain]_vars

\* a failed withdrawal whose amount is back in the entry
C8_Witness ==
    \E id \in Withdrawals :
        /\ ledger.withdrawals[id].status = "Failed"
        /\ ledger.withdrawals[id].last_error = send_on_behalf(FALSE).err
        /\ Available(WithdrawalKey(ledger.withdrawals[id])) >= ledger.withdrawals[id].amount.val

\* what a withdrawal request does to the state it is served in, and what the
\* worker then does with the op the request enqueued
WithdrawalRoundTrip(request) ==
    LET key == <<request.user_id, request.token>>
        a == request.amount.val
        w == withdraw(ledger, queue, wd_seq, request)
        id == wd_seq + 1
        op == w.queue[Len(w.queue)]
        failed == worker_process(w.ledger, op, FALSE)
        done == worker_process(w.ledger, op, TRUE)
    IN /\ w.status = 202
       /\ Entry(w.ledger.balances, key) = <<Available(key) - a, Total(key) - a>>
       /\ id \notin Withdrawals
       /\ w.ledger.withdrawals[id].status = "Pending"
       /\ op = WithdrawOp(id, request, a)
       /\ Entry(failed.balances, key) = <<Available(key), Total(key)>>
       /\ failed.withdrawals[id].status = "Failed"
       /\ failed.withdrawals[id].last_error # None
       /\ Entry(done.balances, key) = <<Available(key) - a, Total(key) - a>>
       /\ done.withdrawals[id].status = "Completed"

RECURSIVE OpsFor(_, _)
OpsFor(q, id) ==
    IF q = <<>> THEN 0
    ELSE (IF Head(q).kind = "Withdraw" /\ Head(q).id = id THEN 1 ELSE 0)
         + OpsFor(Tail(q), id)

\* C10: a withdrawal record is created Pending, changes status at most once,
\* to Completed or Failed, and never changes or disappears afterwards; a
\* Pending record has exactly one op waiting for the worker and a settled
\* record has none, so one of complete_withdrawal / fail_withdrawal is
\* applied to it once and nothing is retried.
C10_WithdrawalSettlesOnce ==
    /\ [](/\ \A id \in Withdrawals :
                OpsFor(queue, id)
                    = IF ledger.withdrawals[id].status = "Pending" THEN 1 ELSE 0
          /\ \A i \in 1..Len(queue) :
                queue[i].kind = "Withdraw" => queue[i].id \in Withdrawals)
    /\ [][/\ \A id \in Withdrawals :
                /\ id \in DOMAIN ledger'.withdrawals
                /\ ledger.withdrawals[id].status # "Pending"
                     => /\ ledger'.withdrawals[id] = ledger.withdrawals[id]
                        /\ OpsFor(queue', id) = 0
                /\ ledger'.withdrawals[id].status \in {"Pending", "Completed", "Failed"}
                /\ ledger'.withdrawals[id].status # ledger.withdrawals[id].status
                     => OpsFor(queue', id) = 0
          /\ \A id \in DOMAIN ledger'.withdrawals \ Withdrawals :
                ledger'.withdrawals[id].status = "Pending"]_vars

\* one withdrawal settled while a later one still waits
C10_Witness ==
    \E id \in Withdrawals, other \in Withdrawals :
        /\ ledger.withdrawals[id].status = "Completed"
        /\ ledger.withdrawals[other].status = "Pending"
        /\ OpsFor(queue, other) = 1

-----------------------------------------------------------------------------
(* Reconciler classification *)

\* what a reconciliation tick does with key in the current ledger
ReconcileTick(key) == reconcile_account(ledger, key[1], key[2])

\* C11: a reconciliation tick on a key with diff = on_chain - internal_total
\* reports Healthy when |diff| <= eps; reports AutoCorrected when
\* eps < |diff| <= 1e-4, and then |on_chain - total| <= eps after the tick;
\* reports Drift when |diff| > 1e-4, and then available and total of the key
\* are what they were.
C11_ReconcilerClassification ==
    \A key \in account_keys(ledger) :
        LET on_chain == on_chain_balance(ledger, key[1], key[2])
            diff == Minus(on_chain, Total(key))
            minor == ~WithinEpsilon(diff) /\ WithinAutoCorrect(diff)
            tick == ReconcileTick(key)
            after == Entry(tick.ledger.balances, key)
        IN /\ WithinEpsilon(diff) => tick.report.status = "Healthy"
           /\ minor => /\ tick.report.status = "AutoCorrected"
                       /\ WithinEpsilon(Minus(on_chain, after[2]))
           /\ ~WithinAutoCorrect(diff) =>
                  /\ tick.report.status = "Drift"
                  /\ after = Entry(ledger.balances, key)

\* a tick has auto-corrected a key whose total was off by a minor amount, and
\* the total now equals the mirror
C11_Witness ==
    \E key \in DOMAIN reports :
        /\ reports[key].status = "AutoCorrected"
        /\ ticks > 0
        /\ ~whole_amounts
        /\ Total(key) = on_chain_balance(ledger, key[1], key[2])
        /\ F64Lt(F64Zero, Total(key))

-----------------------------------------------------------------------------
(* Reservation contract of the ledger *)

\* the amounts the reservation contract is exercised with
ReserveAmounts ==
    IF whole_amounts THEN {0, 1, 2, 3}
    ELSE {F64Dec(1, 10), F64Dec(2, 10), F64FromInt(1)}

\* C12: for every key and amount a that reserve accepts, reserve(u, t, a)
\* followed by release(u, t, a) restores exactly the (available, total) pair
\* that held before the reserve.
C12_ReserveReleaseRestores ==
    \A key \in account_keys(ledger), a \in ReserveAmounts :
        reserve_ok(ledger, key[1], key[2], a) =>
            Entry(release(reserve(ledger, key[1], key[2], a), key[1], key[2], a).balances, key)
                = Entry(ledger.balances, key)

\* C13: reserve(user, token, amount) returns true and subtracts amount from
\* available exactly when available >= amount; otherwise it returns false and
\* the ledger is what it was: no balance value changed and no entry was
\* created.  In both cases total is unchanged.
C13_ReserveContract ==
    \A user \in Users, token \in Tokens, amount \in ReserveAmounts :
        LET key == <<user, token>>
            returned == reserve_ok(ledger, user, token, amount)
            after == reserve(ledger, user, token, amount)
        IN /\ returned <=> AtMost(amount, Available(key))
           /\ returned => Entry(after.balances, key)[1] = Minus(Available(key), amount)
           /\ ~returned => /\ after = ledger
                           /\ account_keys(after) = account_keys(ledger)
           /\ Entry(after.balances, key)[2] = Total(key)

\* C14: release(user, token, amount) never raises available above total: for
\* every pre-state and every amount, available <= total for that key after the
\* call.
C14_ReleaseWithinTotal ==
    \A user \in Users, token \in Tokens, amount \in ReserveAmounts :
        LET after == internal_balance(release(ledger, user, token, amount), user, token)
        IN AtMost(after[1], after[2])

-----------------------------------------------------------------------------
(* Order engine: place and cancel *)

\* what the engine does with a place request served in the current state, and
\* with the owner's cancel of the order it opened
PlaceThenCancel(payload) ==
    LET placed == handle_place(ledger, open_orders, order_seq, payload.user_id,
                               payload.order)
        id == placed.order_seq
    IN [placed |-> placed, id |-> id,
        cancelled |-> handle_cancel(placed.ledger, placed.open_orders,
                                    payload.user_id, id)]

\* C15: a successful Place reserves price x quantity of the quote token for a
\* Buy and quantity of the base token for a Sell and opens the order; the
\* owner's Cancel of that order then restores the owner's (available, total)
\* of the reserved token to the values before the Place and removes the order
\* from the open-order map.
C15_PlaceCancelRestores ==
    \A payload \in PlaceRequests :
        LET run == PlaceThenCancel(payload)
            order == payload.order
            market == parse_market(order.market)
            token == IF order.side = "Buy" THEN market.quote ELSE market.base
            amount == IF order.side = "Buy"
                      THEN Times(order.price.val, order.quantity.val)
                      ELSE order.quantity.val
            key == <<payload.user_id, token>>
        IN run.placed.res = "Ok" =>
              /\ run.id \in DOMAIN run.placed.open_orders
              /\ run.placed.open_orders[run.id].reserved = amount
              /\ Entry(run.placed.ledger.balances, key)
                    = <<Minus(Available(key), amount), Total(key)>>
              /\ run.cancelled.res = "Ok"
              /\ run.id \notin DOMAIN run.cancelled.open_orders
              /\ Entry(run.cancelled.ledger.balances, key) = Entry(ledger.balances, key)

\* every key a request of the model can name
AllKeys == (Users \X (Tokens \cup {"LP-A-B"})) \cup DOMAIN ledger.balances

\* C16: a Place whose reservation exceeds the user's available balance of the
\* reserved token fails with InsufficientBalance, inserts no open order and
\* leaves every ledger balance unchanged (an entry the lookup creates holds
\* (0, 0), the balance of a key without entry).
C16_PlaceInsufficientBalance ==
    \A payload \in PlaceRequests :
        LET order == payload.order
            market == parse_market(order.market)
            token == IF order.side = "Buy" THEN market.quote ELSE market.base
            amount == IF order.side = "Buy"
                      THEN Times(order.price.val, order.quantity.val)
                      ELSE order.quantity.val
            placed == handle_place(ledger, open_orders, order_seq, payload.user_id, order)
        IN (/\ market.ok /\ order.price.ok /\ order.quantity.ok
            /\ Less(Available(<<payload.user_id, token>>), amount)) =>
              /\ placed.res = "InsufficientBalance"
              /\ placed.open_orders = open_orders
              /\ placed.order_seq = order_seq
              /\ \A key \in AllKeys \cup DOMAIN placed.ledger.balances :
                     Entry(placed.ledger.balances, key) = Entry(ledger.balances, key)
              /\ placed.ledger.on_chain = ledger.on_chain
              /\ placed.ledger.withdrawals = ledger.withdrawals

\* alice's Sell of an LP token she never held has been refused: nothing is
\* open, no id was minted, and her balance of it is still nothing
C16_Witness ==
    /\ <<"alice", "LP-A-B">> \in DOMAIN ledger.balances
    /\ pools = <<>>
    /\ order_seq = 0
    /\ open_orders = <<>>
    /\ internal_balance(ledger, "alice", "LP-A-B") = <<Zero, Zero>>

\* what the engine answers to a cancel request served in the current state
CancelNow(payload) == handle_cancel(ledger, open_orders, payload.user_id, payload.id)

\* C17: a Cancel of an id that is not open (never placed, or cancelled before)
\* fails with OrderNotFound and changes nothing; a Cancel by a user other
\* than the owner fails with Internal and leaves the order open with the same
\* owner, order and reserved amount and every ledger balance as it was.  An
\* id that has left the open-order map never returns to it, so the
\* collateral of an order is released at most once.
C17_CancelRefusals ==
    /\ [](\A payload \in CancelRequests :
            /\ payload.id \notin DOMAIN open_orders =>
                  /\ CancelNow(payload).res = "OrderNotFound"
                  /\ CancelNow(payload).ledger = ledger
                  /\ CancelNow(payload).open_orders = open_orders
            /\ (/\ payload.id \in DOMAIN open_orders
                /\ open_orders[payload.id].owner # payload.user_id) =>
                  /\ CancelNow(payload).res = "Internal"
                  /\ payload.id \in DOMAIN CancelNow(payload).open_orders
                  /\ CancelNow(payload).open_orders[payload.id] = open_orders[payload.id]
                  /\ CancelNow(payload).open_orders = open_orders
                  /\ CancelNow(payload).ledger = ledger)
    /\ [][\A id \in 1..order_seq :
            id \notin DOMAIN open_orders => id \notin DOMAIN open_orders']_vars

\* order 1 was cancelled by its owner and order 2 of alice is open: a second
\* cancel of 1 finds nothing, and bob's cancel of 2 is denied
C17_Witness ==
    /\ order_seq = 2
    /\ 1 \notin DOMAIN open_orders
    /\ 2 \in DOMAIN open_orders
    /\ open_orders[2].owner = "alice"
    /\ CancelNow([user_id |-> "bob", id |-> 2]).res = "Internal"
    /\ CancelNow([user_id |-> "alice", id |-> 1]).res = "OrderNotFound"

-----------------------------------------------------------------------------
(* Swap quotes *)

\* C18: on an unpaused constant-product pool with reserves 1,000,000 /
\* 1,000,000 and a fee of 30 basis points, get_amount_out(1000, token_a)
\* succeeds with a value strictly between 995 and 998: the input less the
\* 0.3% fee and the slippage, a_in_fee x R_out / (R_in + a_in_fee).
C18_ThousandInQuotesNear996 ==
    \A pool_id \in DOMAIN pools :
        LET pool == pools[pool_id]
            res == get_amount_out(pool, 1000, pool.token_a)
        IN (/\ ~pool.paused
            /\ pool.pool_type = ConstantProduct
            /\ pool.reserve_a = 1000000
            /\ pool.reserve_b = 1000000
            /\ pool.fee_rate = 30) =>
              /\ res.ok
              /\ 995 < res.val
              /\ res.val < 998

\* floor(a_in_fee * reserve_out / (reserve_in * 10000 + a_in_fee)); a
\* reserve_in above 214,748 makes the denominator pass 2^31, which no
\* numerator of the model reaches, so that the quotient is 0
ScaledQuotient(a_in_fee, reserve_in, reserve_out) ==
    IF reserve_in > 214748 THEN 0
    ELSE (a_in_fee * reserve_out) \div (reserve_in * 10000 + a_in_fee)

-----------------------------------------------------------------------------
(* Liquidity: what a deposit mints and what the minted tokens redeem *)

DepositAmounts == {1, 3, 6}

\* the pools a deposit is priced on: positive supply and reserves
Funded(pool) == pool.total_lp_supply > 0 /\ pool.reserve_a > 0 /\ pool.reserve_b > 0

\* (a', b') is an answer that returns no more than the deposit (a, b)
WithinDeposit(removed, a, b) == removed.ok /\ removed.val[1] <= a /\ removed.val[2] <= b

\* C20 as stated: for every pool with positive supply and reserves and every
\* deposit (a, b) that calculate_lp_mint prices at m, calculate_remove_amounts(m)
\* yields (a', b') with a' <= a and b' <= b, on the pool before the deposit
\* and on the pool after add_liquidity(a, b).
C20_MintedRedeemsWithinDeposit ==
    \A pool_id \in DOMAIN pools, a \in DepositAmounts, b \in DepositAmounts :
        LET pool == pools[pool_id]
            mint == calculate_lp_mint(pool, a, b)
        IN (Funded(pool) /\ mint.ok) =>
              /\ WithinDeposit(calculate_remove_amounts(pool, mint.val), a, b)
              /\ WithinDeposit(calculate_remove_amounts(add_liquidity(pool, a, b, 0).pool,
                                                         mint.val), a, b)

\* C20, amended: on the pool after add_liquidity(a, b) the minted m always
\* redeems (a', b') with a' <= a and b' <= b; on the pool before the deposit
\* calculate_remove_amounts(m) fails with InsufficientLPTokens when m exceeds
\* the supply, and yields such an (a', b') otherwise.
C20_MintedRedeemsWithinDepositWhenCovered ==
    \A pool_id \in DOMAIN pools, a \in DepositAmounts, b \in DepositAmounts :
        LET pool == pools[pool_id]
            mint == calculate_lp_mint(pool, a, b)
            before == calculate_remove_amounts(pool, mint.val)
        IN (Funded(pool) /\ mint.ok) =>
              /\ IF mint.val > pool.total_lp_supply
                 THEN ~before.ok /\ before.err = "InsufficientLPTokens"
                 ELSE WithinDeposit(before, a, b)
              /\ WithinDeposit(calculate_remove_amounts(add_liquidity(pool, a, b, 0).pool,
                                                         mint.val), a, b)

\* a pool that has taken a deposit, on which the deposit (3, 1) mints no more
\* than the supply and the minted tokens redeem a positive amount
C20_Witness ==
    \E pool_id \in DOMAIN pools :
        LET pool == pools[pool_id] IN
        /\ Funded(pool)
        /\ pool.reserve_a > 8
        /\ pool_reqs > 1
        /\ calculate_lp_mint(pool, 3, 1).ok
        /\ calculate_lp_mint(pool, 3, 1).val <= pool.total_lp_supply
        /\ calculate_remove_amounts(pool, calculate_lp_mint(pool, 3, 1).val).val[1] > 0

\* the pool is as create_pool made it: nothing deposited, burned or swapped
Fresh(pool) ==
    /\ pool_reqs = 0
    /\ pool.total_lp_supply + MINIMUM_LIQUIDITY = integer_sqrt_of_product(pool.reserve_a, pool.reserve_b)

\* C21: on a freshly created 1,000,000 / 1,000,000 pool,
\* add_liquidity(100000, 100000, 0) succeeds, the LP amount it returns is
\* within 1000 units of one tenth of total_lp_supply as read after the call,
\* and reserve_a, reserve_b and total_lp_supply have grown by amount_a,
\* amount_b and the minted LP.
C21_AddLiquidityTenth ==
    \A pool_id \in DOMAIN pools :
        LET pool == pools[pool_id]
            r == add_liquidity(pool, 100000, 100000, 0)
            expected == r.pool.total_lp_supply \div 10
        IN (Fresh(pool) /\ pool.reserve_a = 1000000 /\ pool.reserve_b = 1000000) =>
               /\ r.res.ok
               /\ r.res.val > expected - 1000
               /\ r.res.val < expected + 1000
               /\ r.pool.reserve_a = pool.reserve_a + 100000
               /\ r.pool.reserve_b = pool.reserve_b + 100000
               /\ r.pool.total_lp_supply = pool.total_lp_supply + r.res.val

\* [q, r] with L * t = q * S + r and 0 <= r < S, for t < S, by halving L
RECURSIVE DivideProduct(_, _, _)
DivideProduct(L, t, S) ==
    IF L = 0 THEN [q |-> 0, r |-> 0]
    ELSE LET h == DivideProduct(L \div 2, t, S)
             twice == IF 2 * h.r >= S THEN [q |-> 2 * h.q + 1, r |-> 2 * h.r - S]
                                      ELSE [q |-> 2 * h.q, r |-> 2 * h.r]
             r2 == twice.r + (IF L % 2 = 1 THEN t ELSE 0)
         IN IF r2 >= S THEN [q |-> twice.q + 1, r |-> r2 - S]
                       ELSE [q |-> twice.q, r |-> r2]

\* floor(L * R / S), from R = (R \div S) * S + R % S
FloorShare(L, R, S) == L * (R \div S) + DivideProduct(L, R % S, S).q

RemoveMinimums == {0, 2, 100000}

\* C22: remove_liquidity(L, min_a, min_b) on a pool with supply S and reserves
\* (R_a, R_b) fails with InsufficientLiquidityBurned when L = 0, with
\* InsufficientLPTokens when L > S and with SlippageExceeded when an amount is
\* below its minimum, leaving the pool as it was; otherwise it returns
\* (floor(L * R_a / S), floor(L * R_b / S)) and lowers the reserves and the
\* supply by exactly those amounts and L, none below zero.  Removing a tenth
\* of the supply of a fresh 1,000,000 / 1,000,000 pool returns two amounts in
\* (95000, 105000).
C22_RemoveLiquidityProRata ==
    \A pool_id \in DOMAIN pools :
        LET pool == pools[pool_id]
            S == pool.total_lp_supply
            tenth == remove_liquidity(pool, S \div 10, 0, 0)
        IN /\ \A L \in LiquidityBurns(pool) \cup {S}, min_a \in RemoveMinimums,
                 min_b \in RemoveMinimums :
                  LET r == remove_liquidity(pool, L, min_a, min_b) IN
                  IF L = 0
                  THEN ~r.res.ok /\ r.res.err = "InsufficientLiquidityBurned" /\ r.pool = pool
                  ELSE IF L > S
                  THEN ~r.res.ok /\ r.res.err = "InsufficientLPTokens" /\ r.pool = pool
                  ELSE LET a == FloorShare(L, pool.reserve_a, S)
                           b == FloorShare(L, pool.reserve_b, S)
                       IN IF a < min_a \/ b < min_b
                          THEN ~r.res.ok /\ r.res.err = "SlippageExceeded" /\ r.pool = pool
                          ELSE /\ r.res.ok
                               /\ r.res.val = <<a, b>>
                               /\ r.pool = [pool EXCEPT !.reserve_a = @ - a,
                                                         !.reserve_b = @ - b,
                                                         !.total_lp_supply = @ - L]
                               /\ r.pool.reserve_a >= 0
                               /\ r.pool.reserve_b >= 0
                               /\ r.pool.total_lp_supply >= 0
           /\ (Fresh(pool) /\ pool.reserve_a = 1000000 /\ pool.reserve_b = 1000000) =>
                  /\ tenth.res.ok
                  /\ 95000 < tenth.res.val[1] /\ tenth.res.val[1] < 105000
                  /\ 95000 < tenth.res.val[2] /\ tenth.res.val[2] < 105000

\* a tenth of the supply of the fresh 1,000,000 / 1,000,000 pool was removed
C22_Witness ==
    \E pool_id \in DOMAIN pools :
        /\ pools[pool_id].total_lp_supply = 900000
        /\ pools[pool_id].reserve_a = 900001
        /\ pools[pool_id].reserve_b = 900001
        /\ pool_reqs = 1

\* the engine's state after the first n commands of cmds, handled one after
\* the other in send order from the engine's first state
RECURSIVE Sequential(_)
Sequential(n) ==
    IF n = 0
    THEN [res |-> <<>>, ledger |-> EngineLedger, open_orders |-> <<>>, order_seq |-> 0]
    ELSE LET before == Sequential(n - 1)
             r == run_engine(before.ledger, before.open_orders, before.order_seq, cmds[n].cmd)
         IN [res |-> Append(before.res, r.res), ledger |-> r.ledger,
             open_orders |-> r.open_orders, order_seq |-> r.order_seq]

\* the number of commands handled
Handled == Len(cmds) - Len(rx_cmd)

\* C23: the commands of the order engine are handled one at a time in the
\* order they were sent: the channel holds the commands not yet handled in
\* send order, the open orders and the ledger are those of handling the
\* others one after the other in send order, and the reply channel of each
\* handled command received its own result exactly once, the others nothing.
C23_EngineSerializes ==
    /\ Handled >= 0
    /\ rx_cmd = [i \in 1..Len(rx_cmd) |-> cmds[Handled + i].cmd]
    /\ open_orders = Sequential(Handled).open_orders
    /\ ledger = Sequential(Handled).ledger
    /\ order_seq = Sequential(Handled).order_seq
    /\ \A i \in 1..Len(cmds) :
           /\ cmds[i].cmd.resp = i
           /\ cmds[i].got = IF i <= Handled THEN <<Sequential(Handled).res[i]>> ELSE <<>>

\* two commands were handled, one accepted and one refused, while a third waits
C23_Witness ==
    /\ Len(cmds) = 3
    /\ Len(rx_cmd) = 1
    /\ cmds[1].got = <<"Ok">>
    /\ cmds[2].got = <<"InsufficientBalance">>
    /\ open_orders # <<>>

\* the places of an event in the history
At(ev, id) == {i \in 1..Len(events) : events[i] = Event(ev, id)}

\* the withdrawal of op id is still pending in the ledger
StillPending(id) ==
    id \in DOMAIN ledger.withdrawals => ledger.withdrawals[id].status = "Pending"

\* C24: one worker settles the ops strictly in the order they were enqueued,
\* one at a time: when x was enqueued before y, the processing of x, the
\* write to the ledger included, is done before the processing of y starts.
C24_SettlementInOrder ==
    /\ \A x \in 1..wd_seq, y \in 1..wd_seq :
           (\E i \in At("enqueue", x), j \in At("enqueue", y) : i < j) =>
               \A s \in At("start", y) : \E d \in At("done", x) : d < s
    /\ \A x \in 1..wd_seq :
           /\ Cardinality(At("start", x)) <= 1
           /\ Cardinality(At("done", x)) <= 1
           /\ \A d \in At("done", x) : \E s \in At("start", x) : s < d
           /\ (At("enqueue", x) # {} /\ At("done", x) = {}) => StillPending(x)
           /\ At("done", x) # {} => ~(x \in DOMAIN ledger.withdrawals /\ StillPending(x))
    /\ \A s \in 1..Len(events), t \in 1..Len(events) :
           (s < t /\ events[s].ev = "start" /\ events[t].ev = "start") =>
               \E d \in At("done", events[s].id) : d < t

\* three ops of two kinds were enqueued: the first is settled, the second is
\* being settled, the third waits
C24_Witness ==
    /\ wd_seq = 3
    /\ At("done", 1) # {}
    /\ At("start", 2) # {} /\ At("done", 2) = {}
    /\ worker.kind = "Withdraw"
    /\ Len(queue) = 1 /\ queue[1].kind = "PoolDeposit"

\* what record_swap_confirmation and the settlement worker leave alone
Reserves(P) ==
    [pool_id \in DOMAIN P |->
        <<P[pool_id].reserve_a, P[pool_id].reserve_b, P[pool_id].total_lp_supply,
          P[pool_id].paused>>]

\* the telemetry of the last swap of a pool
LastSwap(pool) ==
    <<pool.pending_settlement, pool.last_swap_signature, pool.last_swap_at,
      pool.last_swap_token_in, pool.last_swap_token_out, pool.last_swap_amount_in,
      pool.last_swap_amount_out>>

\* C25: on a pool of the registry record_swap_confirmation sets
\* pending_settlement and stores the telemetry of the swap, and leaves
\* reserve_a, reserve_b, total_lp_supply and paused as they were; on an
\* unknown pool it fails with PoolNotFound.  No swap telemetry request and no
\* step of the settlement worker changes the reserves of a pool.
C25_SwapTelemetryFrame ==
    /\ [](\A pool_id \in DOMAIN pools \cup {"X-Y"}, amount_in \in {0, 3},
             amount_out \in {0, 2}, tx_signature \in {None, "sig"},
             confirmed_at \in {"t1", "t2"} :
             LET r == record_swap_confirmation(pools, pool_id, "B", "A", amount_in,
                          amount_out, tx_signature, confirmed_at)
             IN IF pool_id \in DOMAIN pools
                THEN /\ r.res = "Ok"
                     /\ DOMAIN r.pools = DOMAIN pools
                     /\ \A other \in DOMAIN pools \ {pool_id} : r.pools[other] = pools[other]
                     /\ LastSwap(r.pools[pool_id]) =
                            <<TRUE, tx_signature, confirmed_at, "B", "A", <<amount_in>>,
                              <<amount_out>>>>
                     /\ Reserves(r.pools) = Reserves(pools)
                ELSE r.res = "PoolNotFound" /\ r.pools = pools)
    /\ [][(\/ Len(queue') < Len(queue)
            \/ \E pool_id \in DOMAIN pools :
                   pool_id \notin DOMAIN pools' \/ LastSwap(pools'[pool_id]) # LastSwap(pools[pool_id]))
              => Reserves(pools') = Reserves(pools)]_vars

\* a swap was recorded on a pool whose reserves a deposit request had been
\* served on, and the worker has settled the ops of that request
C25_Witness ==
    \E pool_id \in DOMAIN pools :
        /\ pools[pool_id].pending_settlement
        /\ pools[pool_id].last_swap_signature = "sig"
        /\ pools[pool_id].last_swap_amount_in = <<1>>
        /\ pool_reqs = 2
        /\ queue = <<>>

\* C26: paused is set only by the reconciler on drift and cleared only by the
\* unpause request: no other request, the pool-created notification among
\* them, and no background task changes paused from true to false.
C26_PausedClearedOnlyByUnpause ==
    [][\A pool_id \in DOMAIN pools :
          /\ pool_id \in DOMAIN pools'
          /\ (pools[pool_id].paused /\ ~pools'[pool_id].paused) =>
                 \E id \in UnpauseRequests : pools' = unpause_pool_request(pools, id).pools
          /\ (~pools[pool_id].paused /\ pools'[pool_id].paused) =>
                 /\ rec.phase = "read"
                 /\ rec.pool_id = pool_id
                 /\ rec'.drift_a # 0 \/ rec'.drift_b # 0]_vars

\* C27: a pool is kept under pool_id = "{token_a}-{token_b}", so the pools of
\* (A, B) and (B, A) are two pools; create_pool for an id that exists fails
\* with PoolAlreadyExists and leaves the registry as it was; a pool is created
\* once and is never removed or replaced: only its paused flag changes here.
C27_PoolsCreatedOnce ==
    /\ [](\A pool_id \in DOMAIN pools :
             /\ pools[pool_id].id = pool_id
             /\ pool_id = pools[pool_id].token_a \o "-" \o pools[pool_id].token_b
             /\ \A initial_a \in CreateAmounts, initial_b \in CreateAmounts :
                    LET made == create_pool(pools, pools[pool_id].token_a,
                                    pools[pool_id].token_b, initial_a, initial_b, 30,
                                    ConstantProduct)
                    IN made.res = "PoolAlreadyExists" /\ made.pools = pools)
    /\ []((\E pool_id \in DOMAIN pools :
               pools[pool_id].token_a = "A" /\ pools[pool_id].token_b = "B") =>
             LET made == create_pool(pools, "B", "A", 2, 2, 30, ConstantProduct)
             IN IF "B-A" \in DOMAIN pools THEN made.res = "PoolAlreadyExists"
                ELSE made.res = "Ok" /\ made.pool_id = "B-A" /\ made.pools["A-B"] = pools["A-B"])
    /\ [][\A pool_id \in DOMAIN pools :
             /\ pool_id \in DOMAIN pools'
             /\ [pools'[pool_id] EXCEPT !.paused = pools[pool_id].paused] = pools[pool_id]]_vars

\* what a served request took from the total of a ledger key
Taken(user, token) ==
    Entry(ledger.balances, <<user, token>>)[2] - Entry(ledger'.balances, <<user, token>>)[2]

\* C28: the liquidity handlers update the registry: a served add-liquidity
\* request that deposits (a, b) and mints m LP raises reserve_a, reserve_b and
\* total_lp_supply of the registry's pool by a, b and m, and a served
\* remove-liquidity request lowers them by what it pays out and burns.
C28_LiquidityRequestsUpdateRegistry ==
    [][\A pool_id \in DOMAIN pools, wallet \in Users :
          LET pool == pools[pool_id] IN
          (pool_reqs' = pool_reqs + 1 /\ Taken(wallet, pool.lp_token) # 0) =>
              /\ pool_id \in DOMAIN pools'
              /\ pools'[pool_id].reserve_a = pool.reserve_a + Taken(wallet, pool.token_a)
              /\ pools'[pool_id].reserve_b = pool.reserve_b + Taken(wallet, pool.token_b)
              /\ pools'[pool_id].total_lp_supply =
                     pool.total_lp_supply - Taken(wallet, pool.lp_token)]_vars

\* C29: enqueue(request, amount) stores the Pending record and then sends the
\* op.  When the send fails it turns the record to Failed, adds amount back to
\* available and to total, and returns the status "failed"; otherwise it
\* returns "pending" and changes no balance.  The record is there before the
\* op is: every Withdraw op the channel or the worker holds has its record.
C29_EnqueueSendFailure ==
    /\ \A request \in {w \in WithdrawRequests : w.amount.ok}, send_ok \in BOOLEAN :
           LET id == wd_seq + 1
               amount == request.amount.val
               key == <<request.user_id, request.token>>
               r == enqueue(ledger, queue, id, request, amount, send_ok)
           IN /\ r.request_id = id
              /\ DOMAIN r.ledger.withdrawals = DOMAIN ledger.withdrawals \cup {id}
              /\ \A other \in DOMAIN ledger.withdrawals :
                     r.ledger.withdrawals[other] = ledger.withdrawals[other]
              /\ r.ledger.on_chain = ledger.on_chain
              /\ IF send_ok
                 THEN /\ r.status = "pending"
                      /\ r.ledger.withdrawals[id].status = "Pending"
                      /\ r.ledger.balances = ledger.balances
                      /\ r.queue = Append(queue, WithdrawOp(id, request, amount))
                 ELSE /\ r.status = "failed"
                      /\ r.ledger.withdrawals[id].status = "Failed"
                      /\ r.queue = queue
                      /\ Entry(r.ledger.balances, key) =
                             <<Available(key) + amount, Total(key) + amount>>
                      /\ \A other \in DOMAIN ledger.balances \ {key} :
                             Entry(r.ledger.balances, other) = Entry(ledger.balances, other)
    /\ \A i \in 1..Len(queue) :
           queue[i].kind = "Withdraw" =>
               /\ queue[i].id \in DOMAIN ledger.withdrawals
               /\ ledger.withdrawals[queue[i].id].status = "Pending"
    /\ worker.kind = "Withdraw" =>
           /\ worker.id \in DOMAIN ledger.withdrawals
           /\ ledger.withdrawals[worker.id].status = "Pending"

\* one withdrawal waits in the channel with its Pending record, and a second
\* one, sent after the worker was gone, is Failed with its amount given back
C29_Witness ==
    /\ worker.kind = "Gone"
    /\ wd_seq = 2
    /\ Len(queue) = 1 /\ queue[1].kind = "Withdraw" /\ queue[1].id = 1
    /\ ledger.withdrawals[1].status = "Pending"
    /\ ledger.withdrawals[2].status = "Failed"
    /\ ledger.withdrawals[2].last_error = "failed to enqueue withdrawal"
    /\ Available(<<"alice", "A">>) = 1
    /\ Total(<<"alice", "A">>) = 1

\* the corrections applied
AdjustDiffs ==
    IF whole_amounts THEN {-3, -1, 0, 1, 2}
    ELSE {F64Neg(F64FromInt(1)), F64Neg(F64Dec(1, 10)), F64Dec(5, 100000), F64Dec(1, 10),
          F64Dec(3, 10)}

\* C30: adjust_internal_balances(user, token, diff) sets total to
\* max(total + diff, 0); it keeps reserved = total - available at its value
\* before the call whenever the new total is at least that amount, and
\* otherwise sets available to 0; for every state before the call and every
\* diff, 0 <= available <= total holds afterwards, and no other key changes.
C30_AdjustKeepsReserved ==
    \A key \in account_keys(ledger), diff \in AdjustDiffs :
        LET before == Entry(ledger.balances, key)
            adjusted == adjust_internal_balances(ledger, key[1], key[2], diff)
            after == Entry(adjusted.balances, key)
            reserved == Minus(before[2], before[1])
            total == Larger(Plus(before[2], diff), Zero)
        IN /\ after[2] = total
           /\ IF AtMost(reserved, total) THEN Minus(after[2], after[1]) = reserved
                                         ELSE after[1] = Zero
           /\ AtMost(Zero, after[1])
           /\ AtMost(after[1], after[2])
           /\ \A other \in account_keys(ledger) \ {key} :
                  Entry(adjusted.balances, other) = Entry(ledger.balances, other)
           /\ adjusted.on_chain = ledger.on_chain
           /\ adjusted.withdrawals = ledger.withdrawals

\* the floor square root of n, stated without the iteration
FloorRoot(n) == CHOOSE s \in 0..n : s * s <= n /\ n < (s + 1) * (s + 1)

\* C31: create_pool sets the initial LP supply to
\* L0 = floor(sqrt(a * b)) - MINIMUM_LIQUIDITY with MINIMUM_LIQUIDITY = 1, the
\* square root being the exact floor root of the product, and fails with
\* InsufficientLiquidity, creating no pool, whenever L0 <= MINIMUM_LIQUIDITY:
\* no pool of the registry starts with a supply of MINIMUM_LIQUIDITY or less.
C31_InitialLiquidity ==
    /\ MINIMUM_LIQUIDITY = 1
    /\ \A token_a \in Tokens, token_b \in Tokens, initial_a \in CreateAmounts,
          initial_b \in CreateAmounts :
           LET made == create_pool(pools, token_a, token_b, initial_a, initial_b, 30,
                                   ConstantProduct)
               root == FloorRoot(initial_a * initial_b)
               L0 == root - MINIMUM_LIQUIDITY
           IN /\ integer_sqrt(initial_a * initial_b) = root
              /\ PoolIdOf(token_a, token_b) \notin DOMAIN pools =>
                    IF L0 <= MINIMUM_LIQUIDITY
                    THEN made.res = "InsufficientLiquidity" /\ made.pools = pools
                    ELSE /\ made.res = "Ok"
                         /\ made.pools[made.pool_id].total_lp_supply = L0
    /\ \A pool_id \in DOMAIN pools :
           /\ pools[pool_id].total_lp_supply
                  = FloorRoot(pools[pool_id].reserve_a * pools[pool_id].reserve_b)
                        - MINIMUM_LIQUIDITY
           /\ pools[pool_id].total_lp_supply > MINIMUM_LIQUIDITY

\* C32: on an unpaused StableSwap{A} pool get_amount_out is the
\* constant-product result, value and errors alike, whenever the larger
\* reserve is at least 1.1 times the smaller; within that band it is the
\* constant-product result on the reserves multiplied by A, with
\* InsufficientInputAmount for a zero input and InsufficientOutputAmount for a
\* zero result.
C32_StableSwapQuote ==
    \A pool_id \in DOMAIN pools, amount_in \in SwapAmounts :
        \A token_in \in {pools[pool_id].token_a, pools[pool_id].token_b} :
            LET pool == pools[pool_id]
                A == pool.pool_type.amplification
                res == get_amount_out(pool, amount_in, token_in)
                reserve_in == IF token_in = pool.token_a THEN pool.reserve_a
                              ELSE pool.reserve_b
                reserve_out == IF token_in = pool.token_a THEN pool.reserve_b
                               ELSE pool.reserve_a
            IN (~pool.paused /\ pool.pool_type.kind = "StableSwap") =>
                  IF 10 * Max(reserve_in, reserve_out) >= 11 * Min(reserve_in, reserve_out)
                  THEN res = constant_product_out(pool, amount_in, reserve_in, reserve_out)
                  ELSE /\ res = constant_product_out(pool, amount_in, reserve_in * A,
                                                     reserve_out * A)
                       /\ amount_in = 0 => res = Err("InsufficientInputAmount")
                       /\ res.ok => res.val > 0

\* the op with this id waits in the channel
Queued(id) == \E i \in 1..Len(queue) : queue[i].id = id

\* C33: an op that was enqueued is never cancelled: it waits in the channel
\* until the worker takes it and stays with the worker until it is settled.
\* While the worker task runs, every enqueued op is eventually processed, and
\* every Pending withdrawal whose op was enqueued eventually becomes Completed
\* or Failed.
C33_SettlementTerminates ==
    /\ [](\A id \in 1..MaxSettlements :
             /\ (At("enqueue", id) # {} /\ At("start", id) = {}) => Queued(id)
             /\ (At("start", id) # {} /\ At("done", id) = {}) => worker.id = id)
    /\ \A id \in 1..MaxSettlements :
           (At("enqueue", id) # {}) ~> (At("done", id) # {} \/ worker.kind = "Gone")
    /\ \A id \in 1..MaxSettlements :
           (/\ At("enqueue", id) # {}
            /\ id \in DOMAIN ledger.withdrawals
            /\ ledger.withdrawals[id].status = "Pending")
             ~> (\/ /\ id \in DOMAIN ledger.withdrawals
                    /\ ledger.withdrawals[id].status \in {"Completed", "Failed"}
                 \/ worker.kind = "Gone")

\* a withdrawal and a pool op were enqueued and both are settled by the running
\* worker, the withdrawal by a chain call that failed
C33_Witness ==
    /\ worker.kind = "None"
    /\ queue = <<>>
    /\ At("enqueue", 1) # {} /\ At("done", 1) # {}
    /\ At("enqueue", 2) # {} /\ At("done", 2) # {}
    /\ 1 \in DOMAIN ledger.withdrawals
    /\ ledger.withdrawals[1].status = "Failed"
    /\ 2 \notin DOMAIN ledger.withdrawals

\* C34: for every order whose price and quantity parse, zero and negative
\* values included, a Place never increases the owner's available balance of
\* any token and never makes available exceed total; a Place that succeeds
\* lowers available of the reserved token by reserved_amount, which is not
\* negative.
C34_PlaceCreatesNoBalance ==
    \A payload \in PlaceRequests :
        LET order == payload.order
            r == handle_place(ledger, open_orders, order_seq, payload.user_id, order)
            before(key) == Entry(ledger.balances, key)
            after(key) == Entry(r.ledger.balances, key)
        IN (order.price.ok /\ order.quantity.ok) =>
              /\ \A key \in AllKeys :
                    /\ AtMost(after(key)[1], before(key)[1])
                    /\ AtMost(before(key)[1], before(key)[2]) =>
                           AtMost(after(key)[1], after(key)[2])
              /\ r.res = "Ok" =>
                    /\ AtMost(Zero, r.open_orders[r.order_seq].reserved)
                    /\ after(<<payload.user_id, reserve_token(order)>>)[1]
                          = Minus(before(<<payload.user_id, reserve_token(order)>>)[1],
                                  r.open_orders[r.order_seq].reserved)

\* C35: on an unpaused pool of any type with positive reserves, a
\* get_amount_out that succeeds returns an amount strictly less than the
\* reserve of the output token, for every amount_in, so that execute_swap
\* leaves both reserves positive.
C35_SwapOutputBelowReserve ==
    \A pool_id \in DOMAIN pools, amount_in \in SwapAmounts :
        \A token_in \in {pools[pool_id].token_a, pools[pool_id].token_b} :
            LET pool == pools[pool_id]
                out == get_amount_out(pool, amount_in, token_in)
                swapped == execute_swap(pool, amount_in, token_in, 0)
                reserve_out == IF token_in = pool.token_a THEN pool.reserve_b
                               ELSE pool.reserve_a
            IN (~pool.paused /\ pool.reserve_a > 0 /\ pool.reserve_b > 0 /\ out.ok) =>
                  /\ out.val < reserve_out
                  /\ swapped.res = out
                  /\ swapped.pool.reserve_a > 0
                  /\ swapped.pool.reserve_b > 0

\* the sum of the credits made to a key, from the first n events
RECURSIVE CreditedUpTo(_, _)
CreditedUpTo(n, key) ==
    IF n = 0 THEN 0
    ELSE CreditedUpTo(n - 1, key)
           + (IF events[n].ev = "credit" /\ <<events[n].user_id, events[n].token>> = key
              THEN events[n].amount ELSE 0)

Credited(key) == CreditedUpTo(Len(events), key)

\* the sum of the amounts of a key's withdrawals that are in one of the statuses
RECURSIVE SumWithdrawals(_, _, _)
SumWithdrawals(ids, key, statuses) ==
    IF ids = {} THEN 0
    ELSE LET id == CHOOSE x \in ids : TRUE
             w == ledger.withdrawals[id]
         IN (IF WithdrawalKey(w) = key /\ w.status \in statuses THEN w.amount.val ELSE 0)
              + SumWithdrawals(ids \ {id}, key, statuses)

WithdrawnIn(key, statuses) == SumWithdrawals(DOMAIN ledger.withdrawals, key, statuses)

\* C36: conservation.  For every key that credits, order place / cancel and
\* withdrawals touch, total plus the amounts of the key's Pending and
\* Completed withdrawals equals the sum of the credits to the key, the
\* on-chain mirror equals the credits less the Completed withdrawals, and the
\* user never withdraws more than was credited.
C36_Conservation ==
    \A key \in AllKeys :
        /\ Total(key) + WithdrawnIn(key, {"Pending", "Completed"}) = Credited(key)
        /\ on_chain_balance(ledger, key[1], key[2])
              = Credited(key) - WithdrawnIn(key, {"Completed"})
        /\ WithdrawnIn(key, {"Pending", "Completed"}) <= Credited(key)

\* C37: of two create_pool calls for one token pair that run concurrently,
\* exactly one passes the existence check and returns Ok, the other returns
\* PoolAlreadyExists; the check and the insert are not interleaved: a call
\* that is about to insert is the only one for its pool id, no pool is stored
\* under that id yet, and its insert stores the pool it built where no pool was.
C37_CreatePoolAtomic ==
    /\ [](\A c \in creating :
             /\ c.pool.id \notin DOMAIN pools
             /\ \A d \in creating : d.pool.id = c.pool.id => d = c)
    /\ [][\A c \in creating :
             c \notin creating' =>
                 /\ c.pool.id \notin DOMAIN pools
                 /\ pools'[c.pool.id] = c.pool]_vars

\* C38: credit is atomic as the reconciler sees it.  A credit call that has
\* written the balances entry and the on_chain entry has done what credit
\* does at once; and for a key that only credits touch, no reconciliation
\* tick, whatever credit call is running, reads a total that differs from the
\* on-chain mirror: the key's report is never Drift or AutoCorrected.
C38_CreditAtomicForReconciler ==
    /\ \A payload \in CreditRequests :
           credit_on_chain(credit_balances(ledger, payload.user_id, payload.token,
                                           payload.amount),
                           payload.user_id, payload.token, payload.amount)
             = credit(ledger, payload.user_id, payload.token, payload.amount)
    /\ \A key \in account_keys(ledger) :
           reconcile_account(ledger, key[1], key[2]).report.status = "Healthy"
    /\ \A key \in DOMAIN reports : reports[key].status = "Healthy"

\* the total a ledger holds for a wallet's token
TotalIn(L, wallet, token) == Entry(L.balances, <<wallet, token>>)[2]

\* C39: an add-liquidity request credits the wallet at most
\* min(a * S / R_a, b * S / R_b) LP tokens for the amounts (a, b) it debits;
\* when that mint is zero it credits none, and a request that debits nothing
\* credits none, so that no LP token, and no payout of a later
\* remove-liquidity request, is obtained without a deposit.
C39_AddLiquidityCreditsAtMostMint ==
    \A body \in AddLiquidityRequests :
        body.pool_id \in DOMAIN pools =>
            LET pool == pools[body.pool_id]
                wallet == body.wallet_address
                served == add_liquidity_request(ledger, pools, queue, rpc_ok, wallet,
                              body.pool_id, ParseU64(body.amount_a_desired),
                              ParseU64(body.amount_b_desired))
                a == TotalIn(ledger, wallet, pool.token_a)
                         - TotalIn(served.ledger, wallet, pool.token_a)
                b == TotalIn(ledger, wallet, pool.token_b)
                         - TotalIn(served.ledger, wallet, pool.token_b)
                credited == TotalIn(served.ledger, wallet, pool.lp_token)
                                - TotalIn(ledger, wallet, pool.lp_token)
                mint == Min((a * pool.total_lp_supply) \div pool.reserve_a,
                            (b * pool.total_lp_supply) \div pool.reserve_b)
            IN (served.status = 200 /\ pool.reserve_a > 0 /\ pool.reserve_b > 0) =>
                  /\ credited <= mint
                  /\ mint = 0 => credited = 0
                  /\ (a = 0 /\ b = 0) => credited = 0

\* C40: a pool-created notification for the token pair (A, B) changes only the
\* registry entry of pool "A-B": every other pool keeps its
\* on_chain_storage_account, its on-chain reserve mirror, its
\* pending_settlement and its paused flag, whatever pool_id the body carries.
C40_NotificationTouchesOwnPool ==
    \A body \in Notifications :
        LET served == notify_pool_created(pools, body)
            own == PoolIdOf(body.token_a, body.token_b)
        IN \A pool_id \in (DOMAIN pools) \ {own} :
               /\ pool_id \in DOMAIN served.pools
               /\ served.pools[pool_id].on_chain_storage_account
                      = pools[pool_id].on_chain_storage_account
               /\ served.pools[pool_id].on_chain_reserve_a = pools[pool_id].on_chain_reserve_a
               /\ served.pools[pool_id].on_chain_reserve_b = pools[pool_id].on_chain_reserve_b
               /\ served.pools[pool_id].pending_settlement = pools[pool_id].pending_settlement
               /\ served.pools[pool_id].paused = pools[pool_id].paused

=============================================================================
